---- MODULE Spec2Model ----
(***************************************************************************)
(* Model of samples/scripts/build_makefile.py: the filter chain            *)
(* (normalize_path), the manifest loader (parse_params_file), the target   *)
(* resolver (generate_targets_dict) and the rule synthesizer (main); and   *)
(* of the editor's filters (editor/files/filters.py) and file list         *)
(* (editor/files/file_list.py); of the editor's FileWatcher                *)
(* (editor/watch.py), VirtualDataTable (editor/ui/table.py) and             *)
(* FiltersTabWidget (editor/ui/filters_tab.py); of the saves of             *)
(* filters.json and of the replace table of interactive_filter.py.          *)
(*                                                                         *)
(* Text is modelled as a sequence of one-character strings, so that        *)
(* stripping, splitting, regular-expression search and substitution are    *)
(* computed character by character.  Fixed pieces of the output templates  *)
(* (such as ": scripts/filters.json") and source names are single          *)
(* elements of such a sequence.                                            *)
(***************************************************************************)
EXTENDS Integers, Sequences, FiniteSets, TLC

VARIABLES
    fs_filters,       \* scripts/filters.json on disk
    fs_params,        \* .cache/<downloader>.params on disk, per source name
    argv,             \* command line: [downloaders, dump]
    IGNORE_FILTERS,   \* module global, build_makefile.py:16
    REPLACE_FILTERS,  \* module global, build_makefile.py:17
    pc,               \* position of the script
    di,               \* generate_targets_dict: index of the current downloader
    rules,            \* generate_targets_dict: result of parse_params_file
    ri,               \* generate_targets_dict: index of the current rule
    loc,              \* generate_targets_dict: locals of the last iteration
    targets,          \* the OrderedDict, as a sequence of [key, val]
    ti,               \* main: index of the current target in the output loop
    dir_deps,         \* main: parent directory -> targets, insertion order
    out,              \* lines printed on stdout
    json_out,         \* documents printed by json.dumps (--dump)
    ed_pc,            \* position of the editor (EditorApp)
    ed_downloaders,   \* FileList._downloaders
    ed_raw_data,      \* FileList._raw_data, as a sequence of [key, val]
    ed_filters,       \* FileList.filters
    ed_needs_refresh, \* FileList._needs_refresh
    ed_results,       \* FileList.refresh: the result of apply_filters
    ed_filtered_data, \* FileList._filtered_data
    runs,             \* how many times build_makefile.py is run on the files
    run,              \* number of the current run
    last_run,         \* what the run before printed and how it ended
    fn_pc,            \* position of a direct call of FiltersChain.apply
    fn_in,            \* the call: [filters, path]
    fn_out,           \* what the call returned: [stop, path]
    w_pc,             \* position of the FileWatcher: idle, or inside check_changes
    w_app,            \* what the application does: [ops, callbacks]
    w_calls,          \* how many more calls the application makes
    watched_files,    \* FileWatcher.watched_files: entries [path, callbacks, live]
    last_mtimes,      \* FileWatcher.last_mtimes
    w_disk,           \* the files on disk: [exists, mtime]
    w_now,            \* the clock of the file system
    w_iter,           \* check_changes: the dictionary iterator and the loops
    w_invoked,        \* callbacks invoked by the current pass: [path, name]
    w_changed,        \* files modified since they were last examined, or never examined
    w_seen,           \* the last file examined by check_changes
    t_pc,             \* the VirtualDataTable: off, or mounted
    t_calls,          \* how many more calls the application makes on the table
    provider,         \* the data provider: [version, rows]
    t_rows,           \* the rows of the DataTable: [key, data]
    row_versions,     \* VirtualDataTable.row_versions
    t_last_version,   \* VirtualDataTable._last_version
    t_tasks,          \* the tasks made by trigger_update, oldest first
    t_update_task,    \* VirtualDataTable._update_task: a task of t_tasks, 0 for None
    t_call,           \* the last call of update_range and how it ended
    ft_pc,            \* the FiltersTabWidget: off, or made
    ft_calls,         \* how many more calls the application makes on the widget
    filter_objects,   \* FiltersTabWidget.filter_objects
    ft_has_table,     \* FiltersTabWidget._table is not None
    ft_table,         \* the rows of the FiltersTable: [key, type, desc]
    ft_last,          \* the last call on the widget: what it got, returned and notified
    sv_pc,            \* position of each process that saves filters.json
    sv_left,          \* how many more saves each process makes
    sv_dir,           \* the directory scripts/: the inode of each name, 0 when absent
    sv_inodes,        \* the content of each inode: its parts, "" for a hole
    sv_fd,            \* the file each saving process has open: [inode, offset]
    sv_read,          \* what the last reader of filters.json got
    fl_is_loaded,     \* FileList._is_loaded
    fl_calls,         \* how many more calls are made on the FileList
    rt_pc,            \* position of a save of a filter list followed by a load
    rt_in,            \* the filter list that is saved
    rt_out,           \* the filter list that is loaded
    rk_pc,            \* position of the FilterBrowser on its replace table
    rk_config,        \* files.replace of filters.json: pairs <<find, replace_with>>
    rk_table,         \* the rows of the replace table: [key, find, replace_with]
    rk_last           \* the last delete or edit: row, configuration before, result

\* the files on disk and the command line
envVars == <<fs_filters, fs_params, argv>>

\* the state of the editor
edVars == <<ed_pc, ed_downloaders, ed_raw_data, ed_filters, ed_needs_refresh,
            ed_results, ed_filtered_data>>

\* the state of build_makefile.py
makeVars == <<IGNORE_FILTERS, REPLACE_FILTERS, pc, di, rules, ri, loc, targets,
              ti, dir_deps, out, json_out>>

\* successive runs of build_makefile.py
runVars == <<runs, run, last_run>>

\* a call of FiltersChain.apply
fnVars == <<fn_pc, fn_in, fn_out>>

\* the FileWatcher, its files and its application
watchVars == <<w_pc, w_app, w_calls, watched_files, last_mtimes, w_disk,
               w_now, w_iter, w_invoked, w_changed, w_seen>>

\* the VirtualDataTable, its provider and its background tasks
tableVars == <<t_pc, t_calls, provider, t_rows, row_versions, t_last_version,
               t_tasks, t_update_task, t_call>>

\* the FiltersTabWidget and its table
tabVars == <<ft_pc, ft_calls, filter_objects, ft_has_table, ft_table, ft_last>>

\* the processes that save filters.json, and the directory they write in
saveVars == <<sv_pc, sv_left, sv_dir, sv_inodes, sv_fd, sv_read>>

\* calls made on a FileList
listVars == <<fl_is_loaded, fl_calls>>

\* a save of a filter list followed by a load
rtVars == <<rt_pc, rt_in, rt_out>>

\* the replace table of the FilterBrowser
rkVars == <<rk_pc, rk_config, rk_table, rk_last>>

coreVars == <<envVars, makeVars, edVars, runVars, fnVars>>

uiVars == <<watchVars, tableVars, tabVars, saveVars, listVars, rtVars, rkVars>>

besideWatch == <<coreVars, tableVars, tabVars, saveVars, listVars, rtVars, rkVars>>

besideTable == <<coreVars, watchVars, tabVars, saveVars, listVars, rtVars, rkVars>>

besideTab == <<coreVars, watchVars, tableVars, saveVars, listVars, rtVars, rkVars>>

besideSave == <<coreVars, watchVars, tableVars, tabVars, listVars, rtVars, rkVars>>

\* the FileList calls work on the state of the editor and on the manifests
besideList == <<fs_filters, argv, makeVars, runVars, fnVars, watchVars,
                tableVars, tabVars, saveVars, rtVars, rkVars>>

besideRt == <<coreVars, watchVars, tableVars, tabVars, saveVars, listVars, rkVars>>

besideRk == <<coreVars, watchVars, tableVars, tabVars, saveVars, listVars, rtVars>>

vars == <<coreVars, uiVars>>

----------------------------------------------------------------------------
(* Bounds of the model *)

MaxDownloaders == 2
MaxLines == 2
MaxFilters == 2
Runs == 2

Sources == {"A", "B"}

----------------------------------------------------------------------------
(* Text helpers *)

Range(f) == {f[i] : i \in DOMAIN f}

RECURSIVE Drop(_, _)
Drop(s, n) == IF n <= 0 \/ s = <<>> THEN s ELSE Drop(Tail(s), n - 1)

Take(s, n) == [i \in 1..(IF n < Len(s) THEN n ELSE Len(s)) |-> s[i]]

StartsWith(s, p) == Len(p) <= Len(s) /\ Take(s, Len(p)) = p

IsSpace(c) == c \in {" ", "\t"}

RECURSIVE LStrip(_)
LStrip(s) == IF s # <<>> /\ IsSpace(Head(s)) THEN LStrip(Tail(s)) ELSE s

RECURSIVE RStrip(_)
RStrip(s) ==
    IF s # <<>> /\ IsSpace(s[Len(s)]) THEN RStrip(Take(s, Len(s) - 1)) ELSE s

\* str.strip()
Strip(s) == RStrip(LStrip(s))

\* index of the first c in s, 0 when there is none
RECURSIVE FindFrom(_, _, _)
FindFrom(s, c, i) ==
    IF i > Len(s) THEN 0 ELSE IF s[i] = c THEN i ELSE FindFrom(s, c, i + 1)

\* index of the last c in s, 0 when there is none (str.rfind + 1)
RECURSIVE RFind(_, _, _)
RFind(s, c, i) ==
    IF i < 1 THEN 0 ELSE IF s[i] = c THEN i ELSE RFind(s, c, i - 1)

\* mutant: str.split(None, 1), which splits at a run of whitespace
SplitSpace1_AnyWhitespace(line) ==
    LET i == IF FindFrom(line, " ", 1) = 0 THEN FindFrom(line, "\t", 1)
             ELSE IF FindFrom(line, "\t", 1) = 0 THEN FindFrom(line, " ", 1)
             ELSE IF FindFrom(line, " ", 1) < FindFrom(line, "\t", 1)
                  THEN FindFrom(line, " ", 1) ELSE FindFrom(line, "\t", 1)
    IN  IF i = 0 THEN <<line>> ELSE <<Take(line, i - 1), LStrip(Drop(line, i))>>

\* str.split(' ', 1)
SplitSpace1(line) ==
    LET i == FindFrom(line, " ", 1) IN
    IF i = 0 THEN <<line>> ELSE <<Take(line, i - 1), Drop(line, i)>>

\* str.replace('$', '$$')
RECURSIVE EscapeDollar(_)
EscapeDollar(s) ==
    IF s = <<>> THEN <<>>
    ELSE (IF Head(s) = "$" THEN <<"$", "$">> ELSE <<Head(s)>>)
         \o EscapeDollar(Tail(s))

\* ord() of the characters the model uses
CharCode(c) ==
    CASE c = "\t" -> 9 [] c = " " -> 32 [] c = "$" -> 36 [] c = "(" -> 40
      [] c = "-" -> 45 [] c = "." -> 46 [] c = "/" -> 47 [] c = "^" -> 94
      [] c = "a" -> 97 [] c = "b" -> 98 [] c = "c" -> 99 [] c = "d" -> 100
      [] c = "g" -> 103 [] c = "j" -> 106 [] c = "p" -> 112 [] c = "t" -> 116
      [] c = "x" -> 120 [] c = "y" -> 121

\* s < t for str
RECURSIVE StrLess(_, _)
StrLess(s, t) ==
    IF t = <<>> THEN FALSE
    ELSE IF s = <<>> THEN TRUE
    ELSE IF Head(s) = Head(t) THEN StrLess(Tail(s), Tail(t))
    ELSE CharCode(Head(s)) < CharCode(Head(t))

RECURSIVE InsertSorted(_, _)
InsertSorted(sorted, x) ==
    IF sorted = <<>> THEN <<x>>
    ELSE IF StrLess(x, Head(sorted)) THEN <<x>> \o sorted
    ELSE <<Head(sorted)>> \o InsertSorted(Tail(sorted), x)

\* sorted(list of str)
RECURSIVE SortStrings(_)
SortStrings(l) ==
    IF l = <<>> THEN <<>>
    ELSE InsertSorted(SortStrings(Take(l, Len(l) - 1)), l[Len(l)])

\* sep.join(list of str)
RECURSIVE Join(_, _)
Join(l, sep) ==
    IF l = <<>> THEN <<>>
    ELSE IF Len(l) = 1 THEN l[1]
    ELSE l[1] \o sep \o Join(Tail(l), sep)

AllSlashes(s) == \A i \in 1..Len(s) : s[i] = "/"

RECURSIVE RStripSlashes(_)
RStripSlashes(s) ==
    IF s # <<>> /\ s[Len(s)] = "/" THEN RStripSlashes(Take(s, Len(s) - 1))
    ELSE s

\* os.path.dirname (posixpath)
Dirname(p) ==
    LET head == Take(p, RFind(p, "/", Len(p))) IN
    IF head # <<>> /\ ~AllSlashes(head) THEN RStripSlashes(head) ELSE head

DataPrefix == <<"d", "a", "t", "a", "/">>

----------------------------------------------------------------------------
(* Regular expressions of the re module, for patterns made of literal      *)
(* characters, ".", "^", "$" and "(" (an unterminated group).              *)

\* re.compile raises re.error on an unterminated group
Compiles(p) == \A k \in 1..Len(p) : p[k] # "("

\* position after a match of p[k..] starting at s[i], 0 when there is none
RECURSIVE MatchFrom(_, _, _, _)
MatchFrom(p, k, s, i) ==
    IF k > Len(p) THEN i
    ELSE IF p[k] = "^" THEN (IF i = 1 THEN MatchFrom(p, k + 1, s, i) ELSE 0)
    ELSE IF p[k] = "$"
         THEN (IF i = Len(s) + 1 THEN MatchFrom(p, k + 1, s, i) ELSE 0)
    ELSE IF i > Len(s) THEN 0
    ELSE IF p[k] = "." \/ p[k] = s[i] THEN MatchFrom(p, k + 1, s, i + 1)
    ELSE 0

\* re.search(p, s) is not None
ReSearch(p, s) == \E i \in 1..(Len(s) + 1) : MatchFrom(p, 1, s, i) # 0

\* re.sub(p, r, s) from position i: leftmost non-overlapping matches
RECURSIVE SubFrom(_, _, _, _)
SubFrom(p, r, s, i) ==
    IF i > Len(s) + 1 THEN <<>>
    ELSE LET e == MatchFrom(p, 1, s, i)
             c == IF i <= Len(s) THEN <<s[i]>> ELSE <<>>
         IN  IF e = 0 THEN c \o SubFrom(p, r, s, i + 1)
             ELSE IF e = i THEN r \o c \o SubFrom(p, r, s, i + 1)
             ELSE r \o SubFrom(p, r, s, e)

ReSub(p, r, s) == SubFrom(p, r, s, 1)

----------------------------------------------------------------------------
(* normalize_path *)

\* mutant: every replace that compiles is recorded, changed or not
RECURSIVE ApplyReplaceFilters_AlwaysRecords(_, _, _, _)
ApplyReplaceFilters_AlwaysRecords(filters, k, current_path, applied) ==
    IF k > Len(filters) THEN [path |-> current_path, trace |-> applied]
    ELSE IF ~Compiles(filters[k][1])
         THEN ApplyReplaceFilters_AlwaysRecords(filters, k + 1, current_path,
                                                applied)
         ELSE ApplyReplaceFilters_AlwaysRecords(filters, k + 1,
                  ReSub(filters[k][1], filters[k][2], current_path),
                  Append(applied, <<"replace", filters[k][1], filters[k][2]>>))

\* mutant: the try is around the whole loop, an invalid pattern ends it
RECURSIVE ApplyReplaceFilters_StopsOnInvalid(_, _, _, _)
ApplyReplaceFilters_StopsOnInvalid(filters, k, current_path, applied) ==
    IF k > Len(filters) THEN [path |-> current_path, trace |-> applied]
    ELSE IF ~Compiles(filters[k][1])
         THEN [path |-> current_path, trace |-> applied]
         ELSE LET new_path == ReSub(filters[k][1], filters[k][2], current_path)
              IN  ApplyReplaceFilters_StopsOnInvalid(filters, k + 1, new_path,
                      IF new_path # current_path
                      THEN Append(applied,
                                  <<"replace", filters[k][1], filters[k][2]>>)
                      ELSE applied)

\* the replace loop, build_makefile.py:38-45; returns [path, trace]
RECURSIVE ApplyReplaceFilters(_, _, _, _)
ApplyReplaceFilters(filters, k, current_path, applied) ==
    IF k > Len(filters) THEN [path |-> current_path, trace |-> applied]
    ELSE LET find_pattern == filters[k][1]
             replace_with == filters[k][2]
         IN  IF ~Compiles(find_pattern)
             THEN ApplyReplaceFilters(filters, k + 1, current_path, applied)
             ELSE LET new_path == ReSub(find_pattern, replace_with, current_path)
                  IN  IF new_path # current_path
                      THEN ApplyReplaceFilters(filters, k + 1, new_path,
                               Append(applied,
                                      <<"replace", find_pattern, replace_with>>))
                      ELSE ApplyReplaceFilters(filters, k + 1, current_path,
                                               applied)

\* the ignore loop, build_makefile.py:48-56; returns [path, trace]
RECURSIVE ApplyIgnoreFilters(_, _, _, _)
ApplyIgnoreFilters(filters, k, current_path, applied) ==
    IF k > Len(filters) THEN [path |-> current_path, trace |-> applied]
    ELSE IF Compiles(filters[k]) /\ ReSearch(filters[k], current_path)
         THEN [path |-> <<>>,
               trace |-> Append(applied, <<"ignore", filters[k]>>)]
         ELSE ApplyIgnoreFilters(filters, k + 1, current_path, applied)

\* mutant: the ignore filters are checked on the path as given, before the
\* replace filters
NormalizeWith_IgnoreFirst(replace_filters, ignore_filters, path) ==
    LET g == ApplyIgnoreFilters(ignore_filters, 1, path, <<>>)
    IN  IF g.trace # <<>> THEN g
        ELSE ApplyReplaceFilters(replace_filters, 1, path, <<>>)

\* normalize_path with the two module globals as parameters
NormalizeWith(replace_filters, ignore_filters, path) ==
    LET r == ApplyReplaceFilters(replace_filters, 1, path, <<>>)
    IN  ApplyIgnoreFilters(ignore_filters, 1, r.path, r.trace)

normalize_path(source_name, path) ==
    NormalizeWith(REPLACE_FILTERS, IGNORE_FILTERS, path)

----------------------------------------------------------------------------
(* parse_params_file *)

AbsentFile == [exists |-> FALSE, lines |-> <<>>]

ParamsFile(downloader) == <<".cache/", downloader, ".params">>

Command(source_name, args) ==
    <<"./scripts/", source_name, "/download.sh $@ ">> \o args

\* the loop over the lines of the file, build_makefile.py:66-82
RECURSIVE ParseLines(_, _)
ParseLines(lines, source_name) ==
    IF lines = <<>> THEN <<>>
    ELSE LET line == Strip(Head(lines))
             parts == SplitSpace1(line)
             rest == ParseLines(Tail(lines), source_name)
         IN  IF line = <<>> THEN rest
             ELSE IF Len(parts) < 2 THEN rest
             ELSE <<<<DataPrefix \o parts[1],
                      Command(source_name, parts[2]),
                      source_name>>>> \o rest

parse_params_file(params_file, source_name) ==
    IF ~fs_params[source_name].exists THEN <<>>
    ELSE ParseLines(fs_params[source_name].lines, source_name)

----------------------------------------------------------------------------
(* The OrderedDict of generate_targets_dict and the loop body, lines 96-109 *)

RECURSIVE KeyIndex(_, _, _)
KeyIndex(d, key, i) ==
    IF i > Len(d) THEN 0
    ELSE IF d[i].key = key THEN i ELSE KeyIndex(d, key, i + 1)

\* mutant: the entry is put at the front of the list
AppendCandidate_Prepend(d, norm_key, entry) ==
    LET i == KeyIndex(d, norm_key, 1) IN
    IF i = 0 THEN Append(d, [key |-> norm_key, val |-> <<entry>>])
    ELSE [d EXCEPT ![i].val = <<entry>> \o @]

\* mutant: an entry equal to one already listed is not added again
AppendCandidate_Dedup(d, norm_key, entry) ==
    LET i == KeyIndex(d, norm_key, 1) IN
    IF i = 0 THEN Append(d, [key |-> norm_key, val |-> <<entry>>])
    ELSE IF \E k \in 1..Len(d[i].val) : d[i].val[k] = entry THEN d
    ELSE [d EXCEPT ![i].val = Append(@, entry)]

\* targets[norm_key].append(entry), creating the list on first occurrence
AppendCandidate(d, norm_key, entry) ==
    LET i == KeyIndex(d, norm_key, 1) IN
    IF i = 0 THEN Append(d, [key |-> norm_key, val |-> <<entry>>])
    ELSE [d EXCEPT ![i].val = Append(@, entry)]

\* target[5:] if target.startswith("data/") else target
PathOf(target) ==
    IF StartsWith(target, DataPrefix) THEN Drop(target, 5) ELSE target

\* the candidate tuple stored at line 109
Candidate(target, command, source, applied_filters) ==
    <<target, command, source, applied_filters>>

\* mutant: the check of a falsey norm_key is missing
ResolveInto_NoSkip(d, rule) ==
    LET n == normalize_path(rule[3], PathOf(rule[1])) IN
    AppendCandidate(d, n.path, Candidate(rule[1], rule[2], rule[3], n.trace))

\* the targets after one rule; norm_key falsey means skipped
ResolveInto(d, rule) ==
    LET n == normalize_path(rule[3], PathOf(rule[1])) IN
    IF n.path = <<>> THEN d
    ELSE AppendCandidate(d, n.path,
                         Candidate(rule[1], rule[2], rule[3], n.trace))

----------------------------------------------------------------------------
(* The editor: files/filters.py and files/file_list.py *)

\* IgnoreFilter.__init__: _compiled is None when the pattern does not compile
IgnoreFilter(pattern) ==
    [type |-> "ignore", pattern |-> pattern, compiled |-> Compiles(pattern)]

\* EditFilter.__init__
EditFilter(find, replacement) ==
    [type |-> "edit", find |-> find, replacement |-> replacement,
     compiled |-> Compiles(find)]

\* FiltersChain.__init__
FiltersChain(filters) == [type |-> "chain", filters |-> filters]

\* Filter.apply: [stop, path], stop when StopIteration is raised
RECURSIVE FilterApply(_, _)
RECURSIVE ChainApply(_, _, _)
FilterApply(f, path) ==
    IF f.type = "ignore"
    THEN [stop |-> f.compiled /\ ReSearch(f.pattern, path), path |-> path]
    ELSE IF f.type = "edit"
    THEN [stop |-> FALSE,
          path |-> IF f.compiled THEN ReSub(f.find, f.replacement, path)
                   ELSE path]
    ELSE ChainApply(f.filters, 1, path)

\* FiltersChain.apply
ChainApply(filters, k, current) ==
    IF k > Len(filters) THEN [stop |-> FALSE, path |-> current]
    ELSE LET r == FilterApply(filters[k], current)
         IN  IF r.stop THEN r ELSE ChainApply(filters, k + 1, r.path)

\* Filter.__str__; the arrow of EditFilter is written "->"
FilterStr(f) ==
    IF f.type = "ignore" THEN f.pattern
    ELSE IF f.type = "edit" THEN f.find \o <<" -> ">> \o f.replacement
    ELSE <<"Chain: ", ToString(Len(f.filters)), " filters">>

\* load_filters_from_json: the ignore patterns, then the edit pairs
load_filters_from_json(data) ==
    [k \in 1..Len(data.ignore) |-> IgnoreFilter(data.ignore[k])]
    \o [k \in 1..Len(data.edit) |-> EditFilter(data.edit[k][1], data.edit[k][2])]

\* save_filters_to_json: the patterns of the ignore filters under "ignore",
\* the pairs of the edit filters under "edit"; chains are skipped
RECURSIVE save_filters_to_json(_)
save_filters_to_json(filters) ==
    IF filters = <<>> THEN [ignore |-> <<>>, edit |-> <<>>]
    ELSE LET filter_obj == Head(filters)
             rest == save_filters_to_json(Tail(filters))
         IN  IF filter_obj.type = "ignore"
             THEN [rest EXCEPT !.ignore = <<filter_obj.pattern>> \o @]
             ELSE IF filter_obj.type = "edit"
             THEN [rest EXCEPT !.edit =
                      << <<filter_obj.find, filter_obj.replacement>> >> \o @]
             ELSE rest

\* EditorApp.load_all_data, app.py:158-165: filters.json or the default
FilterData ==
    IF fs_filters.state = "ok" THEN [ignore |-> fs_filters.ignore,
                                     edit |-> fs_filters.edit]
    ELSE [ignore |-> <<>>, edit |-> <<>>]

\* FileList._load_params_file: the lines of one manifest into _raw_data
RECURSIVE LoadLines(_, _, _)
LoadLines(raw, lines, downloader) ==
    IF lines = <<>> THEN raw
    ELSE LET line == Strip(Head(lines))
             parts == SplitSpace1(line)
         IN  IF line = <<>> \/ Len(parts) < 2
             THEN LoadLines(raw, Tail(lines), downloader)
             ELSE LoadLines(
                      AppendCandidate(raw, PathOf(DataPrefix \o parts[1]),
                          <<PathOf(DataPrefix \o parts[1]), downloader, parts[2]>>),
                      Tail(lines), downloader)

\* FileList.load: every params file, in the order glob returned them
RECURSIVE LoadAll(_, _)
LoadAll(raw, downloaders) ==
    IF downloaders = <<>> THEN raw
    ELSE LoadAll(IF fs_params[Head(downloaders)].exists
                 THEN LoadLines(raw, fs_params[Head(downloaders)].lines,
                                Head(downloaders))
                 ELSE raw,
                 Tail(downloaders))

\* FileList.apply_filters, lines 89-101: [stop, path, trace] of one path
RECURSIVE RunFilters(_, _, _, _)
RunFilters(filters, k, current_path, applied) ==
    IF k > Len(filters)
    THEN [stop |-> FALSE, path |-> current_path, trace |-> applied]
    ELSE LET r == FilterApply(filters[k], current_path)
         IN  IF r.stop
             THEN [stop |-> TRUE, path |-> current_path, trace |-> applied]
             ELSE RunFilters(filters, k + 1, r.path,
                      IF r.path # current_path
                      THEN Append(applied, [type |-> FilterStr(filters[k]),
                                            from |-> current_path,
                                            to |-> r.path])
                      ELSE applied)

\* FileList.apply_filters, lines 108-114: the sources of one path
RECURSIVE AddSources(_, _, _, _, _)
AddSources(results, current_path, original_path, sources, applied) ==
    IF sources = <<>> THEN results
    ELSE AddSources(
             AppendCandidate(results, current_path,
                 [original_path |-> original_path, source |-> Head(sources)[2],
                  args |-> Head(sources)[3], applied_filters |-> applied]),
             current_path, original_path, Tail(sources), applied)

\* FileList.apply_filters
RECURSIVE ApplyFiltersFrom(_, _, _, _)
ApplyFiltersFrom(raw, i, filters, results) ==
    IF i > Len(raw) THEN results
    ELSE LET r == RunFilters(filters, 1, raw[i].key, <<>>)
         IN  ApplyFiltersFrom(raw, i + 1, filters,
                 IF r.stop THEN results
                 ELSE AddSources(results, r.path, raw[i].key, raw[i].val,
                                 r.trace))

apply_filters(raw, filters) == ApplyFiltersFrom(raw, 1, filters, <<>>)

\* FileList.refresh, lines 156-161: the rows, sorted by path
FilteredData(filtered) ==
    LET paths == SortStrings([i \in 1..Len(filtered) |-> filtered[i].key])
    IN  [i \in 1..Len(paths) |->
            LET sources == filtered[KeyIndex(filtered, paths[i], 1)].val
            IN  <<paths[i], paths[i],
                  Join([k \in 1..Len(sources) |-> <<sources[k].source>>],
                       <<", ">>)>>]

\* the orders in which glob may return the existing params files
GlobOrders ==
    LET found == {s \in Sources : fs_params[s].exists}
    IN  {l \in [1..Cardinality(found) -> found] : Range(l) = found}

----------------------------------------------------------------------------
(* The FileWatcher of editor/watch.py *)

\* a dictionary is a sequence of entries in insertion order; a deleted entry
\* keeps its place (live = FALSE) and holds the list object as it was left
WatchedPaths(files) == {files[e].path : e \in {x \in DOMAIN files : files[x].live}}

EntryOf(files, file_path) ==
    IF file_path \in WatchedPaths(files)
    THEN CHOOSE e \in DOMAIN files : files[e].live /\ files[e].path = file_path
    ELSE 0

DelKey(d, key) == [x \in DOMAIN d \ {key} |-> d[x]]

\* list.remove: the first occurrence
RemoveFirst(l, x) ==
    LET i == CHOOSE j \in DOMAIN l : l[j] = x /\ \A h \in 1..(j - 1) : l[h] # x
    IN  SubSeq(l, 1, i - 1) \o SubSeq(l, i + 1, Len(l))

\* the callbacks of the application: Plain does nothing to the watcher,
\* Watches calls watch_file(path, Plain("new")), Unwatches calls
\* unwatch_file(path), RemovesItself calls unwatch_file(path, itself)
Plain(name) == [name |-> name, does |-> "nothing", path |-> "none"]

Watches(name, path) == [name |-> name, does |-> "watch_file", path |-> path]

Unwatches(name, path) == [name |-> name, does |-> "unwatch_file", path |-> path]

RemovesItself(name, path) == [name |-> name, does |-> "unwatch_self", path |-> path]

\* callback=None
None == Plain("None")

\* FileWatcher.watch_file; w is [watched_files, last_mtimes]
watch_file(w, file_path, callback) ==
    LET e == EntryOf(w.watched_files, file_path)
    IN  [ watched_files |->
              IF e = 0
              THEN Append(w.watched_files,
                          [path |-> file_path, callbacks |-> <<callback>>,
                           live |-> TRUE])
              ELSE [w.watched_files EXCEPT ![e].callbacks = Append(@, callback)],
          last_mtimes |->
              IF file_path \in DOMAIN w.last_mtimes
              THEN w.last_mtimes
              ELSE (file_path :> 0) @@ w.last_mtimes ]

\* del self.watched_files[file_path] and the del of its mtime
DeleteEntry(w, e) ==
    [ watched_files |-> [w.watched_files EXCEPT ![e].live = FALSE],
      last_mtimes |-> DelKey(w.last_mtimes, w.watched_files[e].path) ]

\* FileWatcher.unwatch_file
unwatch_file(w, file_path, callback) ==
    LET e == EntryOf(w.watched_files, file_path)
    IN  IF e = 0 THEN w
        ELSE IF callback = None THEN DeleteEntry(w, e)
        ELSE LET callbacks == w.watched_files[e].callbacks
                 left == IF callback \in Range(callbacks)
                         THEN RemoveFirst(callbacks, callback)
                         ELSE callbacks
                 removed == [w EXCEPT !.watched_files[e].callbacks = left]
             IN  IF left = <<>> THEN DeleteEntry(removed, e) ELSE removed

\* what a callback does when check_changes invokes it
Invoke(w, callback) ==
    CASE callback.does = "watch_file" ->
             watch_file(w, callback.path, Plain("new"))
      [] callback.does = "unwatch_file" ->
             unwatch_file(w, callback.path, None)
      [] callback.does = "unwatch_self" ->
             unwatch_file(w, callback.path, callback)
      [] OTHER -> w

----------------------------------------------------------------------------
(* The VirtualDataTable of editor/ui/table.py *)

\* rows and cells are numbered from 0 as in the code: row row_idx of the
\* table is t_rows[row_idx + 1], row index of the provider is rows[index + 1]

\* chunk_size of _background_update, table.py:101, is 100: the model works
\* on tables of a few rows and scales the chunk down with them
chunk_size == 1

Min(a, b) == IF a < b THEN a ELSE b

Max(a, b) == IF a > b THEN a ELSE b

\* DataTable.remove_row(key): RowDoesNotExist is caught at table.py:44
remove_row(rows, key) == SelectSeq(rows, LAMBDA row : row.key # key)

RemoveRows(rows, i, provider_size) ==
    LET RECURSIVE Remove(_, _)
        Remove(r, j) == IF j < provider_size THEN r
                        ELSE Remove(remove_row(r, j), j - 1)
    IN  Remove(rows, i)

\* mutant: rows are added, never removed
adjust_row_count_OnlyAdds(rows, provider_size) ==
    rows \o [j \in 1..Max(provider_size - Len(rows), 0) |->
                [key |-> Len(rows) + j - 1, data |-> ""]]

\* VirtualDataTable._adjust_row_count: empty rows keyed by their index are
\* added at the end, or the rows keyed current_size-1 .. provider_size are
\* removed
adjust_row_count(rows, provider_size) ==
    LET current_size == Len(rows)
        added == rows \o [j \in 1..Max(provider_size - current_size, 0) |->
                             [key |-> current_size + j - 1, data |-> ""]]
    IN  RemoveRows(added, current_size - 1, provider_size)

\* row_versions.get(row_idx, -1)
VersionOf(versions, row_idx) ==
    IF row_idx \in DOMAIN versions THEN versions[row_idx] ELSE -1

\* the loop of update_range from row_idx on: t is [rows, versions, raised,
\* fetched]; update_cell_at raises CellDoesNotExist on a row the table does
\* not have, which ends the call
RECURSIVE UpdateFrom(_, _, _, _)
UpdateFrom(t, data, row_idx, stop) ==
    IF row_idx >= stop THEN t
    ELSE IF VersionOf(t.versions, row_idx) = data.version
    THEN UpdateFrom(t, data, row_idx + 1, stop)
    ELSE IF row_idx >= Len(t.rows)
    THEN [t EXCEPT !.raised = TRUE, !.fetched = @ \cup {row_idx}]
    ELSE UpdateFrom([rows |-> [t.rows EXCEPT ![row_idx + 1].data =
                                                 data.rows[row_idx + 1]],
                     versions |-> (row_idx :> data.version) @@ t.versions,
                     raised |-> FALSE,
                     fetched |-> t.fetched \cup {row_idx}],
                    data, row_idx + 1, stop)

\* VirtualDataTable.update_range
update_range(rows, versions, data, start, stop) ==
    UpdateFrom([rows |-> rows, versions |-> versions, raised |-> FALSE,
                fetched |-> {}],
               data, Max(start, 0), Min(stop, Len(data.rows)))

\* the record kept of a call of update_range
CallOf(start, stop, t) ==
    [start |-> start, stop |-> stop, raised |-> t.raised, fetched |-> t.fetched]

\* a task of _background_update: created, suspended at its await, done or
\* cancelled; cancel is the request of Task.cancel, i the next chunk and
\* n the end of range(0, len(provider), chunk_size)
Task(version) ==
    [state |-> "created", cancel |-> FALSE, i |-> 0, n |-> 0,
     version |-> version]

\* Task.done()
Done(task) == task.state \in {"done", "cancelled", "failed"}

----------------------------------------------------------------------------
(* The FiltersTabWidget of editor/ui/filters_tab.py *)

\* load_data, lines 61-76: one row per filter, keyed by its index from 0
FilterRows(filters) ==
    [k \in 1..Len(filters) |->
        [key |-> k - 1, type |-> filters[k].type, desc |-> FilterStr(filters[k])]]

\* the record kept of a call: op, its index, the list before it, what it
\* returned and the lists the listener on_filters_changed was given
TabCall(op, index, before, returned, notified) ==
    [op |-> op, index |-> index, before |-> before, returned |-> returned,
     notified |-> notified]

----------------------------------------------------------------------------
(* Saving filters.json: editor/filters.py, editor/app.py, interactive_filter.py *)

\* the two programs that save filters.json; both write the temporary file
\* scripts/filters.json.tmp first
Savers == {"editor/app.py", "interactive_filter.py"}

\* json.dump writes the document in Parts writes, the last one when the
\* with block closes the file
Parts == 2

\* the document of configuration c, complete
Document(c) == [k \in 1..Parts |-> c]

\* open(temp_file, "w"): the inode of the name is truncated, or a new empty
\* inode is made; d is [dir, inodes]
OpenTruncate(d) ==
    IF d.dir.tmp # 0
    THEN [d EXCEPT !.inodes[d.dir.tmp] = <<>>]
    ELSE [dir |-> [d.dir EXCEPT !.tmp = Len(d.inodes) + 1],
          inodes |-> Append(d.inodes, <<>>)]

\* write at offset k of an open file: a hole is filled with ""
WriteAt(content, k, part) ==
    [j \in 1..Max(Len(content), k) |->
        IF j = k THEN part ELSE IF j <= Len(content) THEN content[j] ELSE ""]

----------------------------------------------------------------------------
(* The replace table: interactive_filter.py and editor/images/replace.py *)

\* key=f"{find_pattern}|{replace_with}"
RowKey(find_pattern, replace_with) == find_pattern \o <<"|">> \o replace_with

\* row_key.split("|", 1), for a key that holds a "|"
SplitBar(row_key) ==
    LET i == FindFrom(row_key, "|", 1)
    IN  <<Take(row_key, i - 1), Drop(row_key, i)>>

\* load_filter_data, interactive_filter.py:479-486: one row per pair;
\* add_row raises DuplicateKey on a key the table has, and the handler adds
\* a row that shows the error
RECURSIVE AddRows(_, _)
AddRows(rows, replace_patterns) ==
    IF replace_patterns = <<>> THEN rows
    ELSE LET find_pattern == Head(replace_patterns)[1]
             replace_with == Head(replace_patterns)[2]
             key == RowKey(find_pattern, replace_with)
         IN  IF \E r \in DOMAIN rows : rows[r].key = key
             THEN Append(rows, [key |-> <<"_error">>,
                                find |-> <<"Error loading filters">>,
                                replace_with |-> <<>>])
             ELSE AddRows(Append(rows, [key |-> key, find |-> find_pattern,
                                        replace_with |-> replace_with]),
                          Tail(replace_patterns))

load_filter_data(replace_patterns) == AddRows(<<>>, replace_patterns)

\* _remove_replace_pattern, lines 625-628: list.remove of the pair
remove_replace_pattern(replace_patterns, find_pattern, replace_with) ==
    IF <<find_pattern, replace_with>> \in Range(replace_patterns)
    THEN RemoveFirst(replace_patterns, <<find_pattern, replace_with>>)
    ELSE replace_patterns

\* _edit_replace_pattern, lines 721-739
edit_replace_pattern(replace_patterns, old_find, old_replace, result) ==
    IF result[1] = <<>> THEN replace_patterns
    ELSE IF old_find = result[1] /\ old_replace = result[2] THEN replace_patterns
    ELSE IF <<old_find, old_replace>> \in Range(replace_patterns)
    THEN LET idx == CHOOSE j \in DOMAIN replace_patterns :
                       /\ replace_patterns[j] = <<old_find, old_replace>>
                       /\ \A h \in 1..(j - 1) :
                             replace_patterns[h] # <<old_find, old_replace>>
         IN  [replace_patterns EXCEPT ![idx] = result]
    ELSE replace_patterns

----------------------------------------------------------------------------
(* Initial states: the files on disk and the command line *)

SeqUpTo(S, n) == UNION {[1..k -> S] : k \in 0..n}

FileOf(lines) == [exists |-> TRUE, lines |-> lines]

Manifests(lineSet, n) == {AbsentFile} \cup {FileOf(l) : l \in SeqUpTo(lineSet, n)}

\* filters.json: missing, unreadable (open raises), corrupt (json.load
\* raises) or a JSON object with files.ignore, files.replace and files.edit
NoConfig(state) ==
    [state |-> state, ignore |-> <<>>, replace |-> <<>>, edit |-> <<>>]

Config(ignore, replace, edit) ==
    [state |-> "ok", ignore |-> ignore, replace |-> replace, edit |-> edit]

BrokenConfigs == {NoConfig("missing"), NoConfig("unreadable"), NoConfig("corrupt")}

\* build_makefile.py before its first statement; at is where it stands
InitProgram(at) ==
    /\ IGNORE_FILTERS = <<>>
    /\ REPLACE_FILTERS = <<>>
    /\ pc = at
    /\ di = 0
    /\ rules = <<>>
    /\ ri = 0
    /\ loc = [bound |-> FALSE, target |-> <<>>, source |-> "", path |-> <<>>,
              norm_key |-> <<>>, applied_filters |-> <<>>]
    /\ targets = <<>>
    /\ ti = 0
    /\ dir_deps = <<>>
    /\ out = <<>>
    /\ json_out = <<>>

\* FileList.__init__, file_list.py:18-26; at is where the editor stands
InitEditor(at) ==
    /\ ed_pc = at
    /\ ed_downloaders = <<>>
    /\ ed_raw_data = <<>>
    /\ ed_filters = <<>>
    /\ ed_needs_refresh = TRUE
    /\ ed_results = <<>>
    /\ ed_filtered_data = <<>>

\* the script is run n times, one run after the other
NoRun == [pc |-> "none", out |-> <<>>, json_out |-> <<>>]

InitRuns(n) ==
    /\ runs = n
    /\ run = 1
    /\ last_run = NoRun

\* FiltersChain.apply is called on one of inputs; at is where the call stands
NoCall == [filters |-> <<>>, path |-> <<>>]

InitCall(at, inputs) ==
    /\ fn_pc = at
    /\ fn_in \in inputs
    /\ fn_out = [stop |-> FALSE, path |-> <<>>]

\* the files a FileWatcher is asked to watch
WatchPaths == {"p", "q"}

NoIter == [used |-> 0, pos |-> 0, entry |-> 0, k |-> 0]

NotSeen == [path |-> "none", changed |-> FALSE, fired |-> FALSE,
            registered |-> <<>>]

\* no FileWatcher is made
WatchOff ==
    /\ w_pc = "off"
    /\ w_app = [ops |-> {}, callbacks |-> {}]
    /\ w_calls = 0
    /\ watched_files = <<>>
    /\ last_mtimes = <<>>
    /\ w_disk = [p \in WatchPaths |-> [exists |-> FALSE, mtime |-> 0]]
    /\ w_now = 1
    /\ w_iter = NoIter
    /\ w_invoked = <<>>
    /\ w_changed = WatchPaths
    /\ w_seen = NotSeen

\* FileWatcher.__init__, watch.py:14-16: the application makes calls more
\* calls, of the operations ops with the callbacks of callbacks; the files
\* of existing are on disk, written at time 1
InitWatcher(calls, ops, callbacks, existing) ==
    /\ w_pc = "idle"
    /\ w_app = [ops |-> ops, callbacks |-> callbacks]
    /\ w_calls = calls
    /\ watched_files = <<>>
    /\ last_mtimes = <<>>
    /\ w_disk \in {[p \in WatchPaths |-> [exists |-> p \in E,
                                          mtime |-> IF p \in E THEN 1 ELSE 0]] :
                      E \in existing}
    /\ w_now = 1
    /\ w_iter = NoIter
    /\ w_invoked = <<>>
    /\ w_changed = WatchPaths
    /\ w_seen = NotSeen

\* the rows of a provider: at most MaxRows of them
MaxRows == 2

Provider(rows, changes) == [version |-> 0, rows |-> rows, changes |-> changes]

NoRange == [start |-> 0, stop |-> 0, raised |-> FALSE, fetched |-> {}]

\* no table is made
TableOff ==
    /\ t_pc = "off"
    /\ t_calls = 0
    /\ provider = [version |-> 0, rows |-> <<>>, changes |-> <<>>]
    /\ t_rows = <<>>
    /\ row_versions = <<>>
    /\ t_last_version = -1
    /\ t_tasks = <<>>
    /\ t_update_task = 0
    /\ t_call = NoRange

\* VirtualDataTable.__init__, table.py:20-28, on one of providers: its
\* rows and the changes to come; the application makes calls more calls
InitTable(calls, providers) ==
    /\ t_pc = "mounted"
    /\ t_calls = calls
    /\ provider \in providers
    /\ t_rows = <<>>
    /\ row_versions = <<>>
    /\ t_last_version = -1
    /\ t_tasks = <<>>
    /\ t_update_task = 0
    /\ t_call = NoRange

NoTabCall == TabCall("none", -1, <<>>, "none", <<>>)

\* no FiltersTabWidget is made
TabOff ==
    /\ ft_pc = "off"
    /\ ft_calls = 0
    /\ filter_objects = <<>>
    /\ ft_has_table = FALSE
    /\ ft_table = <<>>
    /\ ft_last = NoTabCall

\* FiltersTabWidget.__init__, filters_tab.py:35-39, with a listener set on
\* on_filters_changed; the application makes calls more calls
InitTab(calls) ==
    /\ ft_pc = "made"
    /\ ft_calls = calls
    /\ filter_objects = <<>>
    /\ ft_has_table = FALSE
    /\ ft_table = <<>>
    /\ ft_last = NoTabCall

\* no file is open
NoFile == [inode |-> 0, offset |-> 0]

\* filters.json holds the complete document "old"; no process saves it
SaveOff ==
    /\ sv_pc = [s \in Savers |-> "off"]
    /\ sv_left = [s \in Savers |-> 0]
    /\ sv_dir = [json |-> 1, tmp |-> 0]
    /\ sv_inodes = <<Document("old")>>
    /\ sv_fd = [s \in Savers |-> NoFile]
    /\ sv_read = Document("old")

\* the processes of savers are running and save at most saves times each
InitSave(savers, saves) ==
    /\ sv_pc = [s \in Savers |-> IF s \in savers THEN "idle" ELSE "off"]
    /\ sv_left = [s \in Savers |-> IF s \in savers THEN saves ELSE 0]
    /\ sv_dir = [json |-> 1, tmp |-> 0]
    /\ sv_inodes = <<Document("old")>>
    /\ sv_fd = [s \in Savers |-> NoFile]
    /\ sv_read = Document("old")

\* the manifests a downloader may write while the editor runs
ListManifests == {FileOf(<< <<"a", " ", "x">> >>), FileOf(<< <<"b", " ", "y">> >>)}

\* no call is made on a FileList
ListOff ==
    /\ fl_is_loaded = FALSE
    /\ fl_calls = 0

\* no filter list is saved and loaded
RtOff ==
    /\ rt_pc = "off"
    /\ rt_in = <<>>
    /\ rt_out = <<>>

\* one of the filter lists of inputs is saved, then loaded
InitRoundTrip(inputs) ==
    /\ rt_pc = "call"
    /\ rt_in \in inputs
    /\ rt_out = <<>>

NoRowCall == [op |-> "none", row |-> 0, before |-> <<>>, result |-> <<>>]

\* no FilterBrowser is started
RkOff ==
    /\ rk_pc = "off"
    /\ rk_config = <<>>
    /\ rk_table = <<>>
    /\ rk_last = NoRowCall

\* the FilterBrowser is started on a filters.json whose files.replace is
\* one of configs
InitRowKeys(configs) ==
    /\ rk_pc = "start"
    /\ rk_config \in configs
    /\ rk_table = <<>>
    /\ rk_last = NoRowCall

\* of the programs of the user interface only those of on run
OffExcept(on) ==
    /\ IF "watcher" \in on THEN TRUE ELSE WatchOff
    /\ IF "table" \in on THEN TRUE ELSE TableOff
    /\ IF "tab" \in on THEN TRUE ELSE TabOff
    /\ IF "save" \in on THEN TRUE ELSE SaveOff
    /\ IF "list" \in on THEN TRUE ELSE ListOff
    /\ IF "round_trip" \in on THEN TRUE ELSE RtOff
    /\ IF "row_keys" \in on THEN TRUE ELSE RkOff

InitUiOff == OffExcept({})

\* build_makefile.py is run n times on the files
InitMake(n) ==
    /\ InitProgram("import")
    /\ InitEditor("off")
    /\ InitRuns(n)
    /\ InitCall("off", {NoCall})
    /\ InitUiOff

\* the editor is started on the files
InitEdit ==
    /\ InitProgram("off")
    /\ InitEditor("start")
    /\ ~argv.dump
    /\ InitRuns(1)
    /\ InitCall("off", {NoCall})
    /\ InitUiOff

\* a chain of filters is applied to a path
InitChainCall(inputs) ==
    /\ InitProgram("off")
    /\ InitEditor("off")
    /\ ~argv.dump
    /\ InitRuns(1)
    /\ InitCall("call", inputs)
    /\ InitUiOff

\* one of the two programs is run on the files
InitPrograms ==
    \/ InitMake(1)
    \/ InitEdit

\* the sources that are not requested are never read: their files are absent
InitFiles(downloaderLists, manifests, configs) ==
    /\ argv \in [downloaders : downloaderLists, dump : BOOLEAN]
    /\ fs_filters \in configs
    /\ \E f \in [Range(argv.downloaders) -> manifests] :
          fs_params = [s \in Sources |->
                          IF s \in DOMAIN f THEN f[s] ELSE AbsentFile]

\* the programs of build_makefile.py, of the editor and of FiltersChain.apply
\* do not run; the only source has no manifest and filters.json no filter
CoreOff ==
    /\ InitFiles({<<"A">>}, {AbsentFile}, {Config(<<>>, <<>>, <<>>)})
    /\ ~argv.dump
    /\ InitProgram("off")
    /\ InitEditor("off")
    /\ InitRuns(1)
    /\ InitCall("off", {NoCall})

\* calls of the application in the small runs of every family
SideCalls == 1

\* callbacks that do nothing to the watcher
PlainCallbacks == {Plain("c1"), Plain("c2")}

WatchOps == {"watch_file", "modify", "check_changes"}

\* a FileWatcher with one call, at most, of watch_file, unwatch_file or a
\* write to a file
SideWatcher ==
    /\ CoreOff
    /\ InitWatcher(SideCalls, WatchOps \cup {"unwatch_file"}, {Plain("c1")},
                   {WatchPaths})
    /\ OffExcept({"watcher"})

\* a table on a provider of one row that changes once
SideTable ==
    /\ CoreOff
    /\ InitTable(SideCalls, {Provider(<<"u">>, << <<"v">> >>)})
    /\ OffExcept({"table"})

SideTab ==
    /\ CoreOff
    /\ InitTab(SideCalls)
    /\ OffExcept({"tab"})

\* one process saves filters.json once
SideSave ==
    /\ CoreOff
    /\ InitSave({"editor/app.py"}, SideCalls)
    /\ OffExcept({"save"})

\* calls on the FileList of an editor whose only manifest holds "a x"
SideList ==
    /\ InitFiles({<<"A">>}, {FileOf(<< <<"a", " ", "x">> >>)},
                 {Config(<<>>, <<>>, <<>>)})
    /\ ~argv.dump
    /\ InitProgram("off")
    /\ InitEditor("calls")
    /\ InitRuns(1)
    /\ InitCall("off", {NoCall})
    /\ fl_is_loaded = FALSE
    /\ fl_calls = SideCalls
    /\ OffExcept({"list"})

SideRoundTrip ==
    /\ CoreOff
    /\ InitRoundTrip({<<IgnoreFilter(<<"a">>)>>})
    /\ OffExcept({"round_trip"})

SideRowKeys ==
    /\ CoreOff
    /\ InitRowKeys({<< <<<<"a">>, <<"c">>>> >>})
    /\ OffExcept({"row_keys"})

\* beside the runs of its programs every family has a few runs on one
\* manifest, absent or holding "a x", without filters: the script run Runs
\* times, the editor started, and calls of FiltersChain.apply on the path "a"
SideChains ==
    { [filters |-> f, path |-> <<"a">>] :
         f \in { <<>>,
                 <<IgnoreFilter(<<"a">>)>>,
                 <<EditFilter(<<"a">>, <<"b">>), IgnoreFilter(<<"b">>)>> } }

InitSideCore ==
    /\ InitFiles({<<"A">>}, {AbsentFile, FileOf(<< <<"a", " ", "x">> >>)},
                 {Config(<<>>, <<>>, <<>>)})
    /\ \/ InitMake(Runs)
       \/ InitEdit
       \/ InitChainCall(SideChains)

\* and small runs of the FileWatcher, the table, the filters tab, a save,
\* the FileList, a save and load, the replace table
InitSide ==
    \/ InitSideCore
    \/ SideWatcher
    \/ SideTable
    \/ SideTab
    \/ SideSave
    \/ SideList
    \/ SideRoundTrip
    \/ SideRowKeys

\* two manifest lines, "a x" and "d/b y"
CoreLines == {<<"a", " ", "x">>, <<"d", "/", "b", " ", "y">>}

\* filters.json of the core runs: none, ignore b, d/b -> a, a -> b with
\* ignore ^b, a -> c with ignore a, a -> (empty)
CoreConfigs ==
    BrokenConfigs \cup
    { Config(<<>>, <<>>, <<>>),
      Config(<< <<"b">> >>, <<>>, <<>>),
      Config(<<>>, << <<<<"d", "/", "b">>, <<"a">>>> >>, <<>>),
      Config(<< <<"^", "b">> >>, << <<<<"a">>, <<"b">>>> >>, <<>>),
      Config(<< <<"a">> >>, << <<<<"a">>, <<"c">>>> >>, <<>>),
      Config(<<>>, << <<<<"a">>, <<>>>> >>, <<>>) }

Init ==
    \/ /\ InitFiles(SeqUpTo(Sources, MaxDownloaders),
                    Manifests(CoreLines, MaxLines), CoreConfigs)
       /\ InitPrograms
    \/ InitSide

\* runs on the filter chain: one source, one manifest line, every list of
\* at most MaxFilters ignore patterns and replace pairs; "(" does not compile
FilterLines ==
    { <<"a", " ", "x">>, <<"a", "b", " ", "x">>,
      <<"a", ".", "j", "p", "g", " ", "x">> }

FilterPatterns == {<<"a">>, <<"b">>, <<"c">>, <<"(">>}

FilterPairs ==
    { <<<<"a">>, <<"b">>>>, <<<<"b">>, <<"c">>>>, <<<<"(">>, <<"c">>>>,
      <<<<"b">>, <<>>>> }

FilterConfigs ==
    { Config(i, r, r) : i \in SeqUpTo(FilterPatterns, MaxFilters),
                        r \in SeqUpTo(FilterPairs, MaxFilters) }

InitFilter ==
    \/ /\ InitFiles({<<"A">>}, {FileOf(<<l>>) : l \in FilterLines},
                    FilterConfigs)
       /\ InitPrograms
    \/ InitSide

\* runs on the manifest loader: one source, no filter, at most MaxLines lines
\* with blanks, tabs, several spaces, no space
ManifestLines ==
    { <<"a", " ", "x">>, <<"b">>, <<>>, <<" ", "\t">>,
      <<" ", "a", " ", "x", " ">>, <<"a", " ", " ", "x", " ", "y">>,
      <<"a", "\t", "x">>, <<"a", " ", "\t", "x", "\t">>, <<"b", " ">> }

InitManifest ==
    \/ /\ InitFiles({<<"A">>}, Manifests(ManifestLines, MaxLines),
                    {Config(<<>>, <<>>, <<>>)})
       /\ InitPrograms
    \/ InitSide

\* runs on the rule synthesizer: a path at the top, one in a directory and
\* one in a directory with a "$"; filters.json has no filter, rewrites d/b
\* to a, or d/b to $d/c
RenderLines ==
    { <<"a", " ", "x">>, <<"d", "/", "b", " ", "y">>,
      <<"$", "d", "/", "c", " ", "z">> }

RenderConfigs ==
    { Config(<<>>, <<>>, <<>>),
      Config(<<>>, << <<<<"d", "/", "b">>, <<"a">>>> >>, <<>>),
      Config(<<>>, << <<<<"d", "/", "b">>, <<"$", "d", "/", "c">>>> >>, <<>>) }

InitRender ==
    \/ /\ InitFiles(SeqUpTo(Sources, MaxDownloaders),
                    Manifests(RenderLines, MaxLines), RenderConfigs)
       /\ InitPrograms
    \/ InitSide

\* runs on the two readers of filters.json: two sources whose manifests
\* list "a" and "ab", and a filters.json that is either written by the
\* editor (save_filters_to_json of up to MaxFilters filters: no "replace"
\* key) or written by hand with the pairs under "replace"
EditorLines == {<<"a", " ", "x">>, <<"a", "b", " ", "x">>}

EditorFilters ==
    { IgnoreFilter(<<"c">>), EditFilter(<<"b">>, <<>>),
      EditFilter(<<"a">>, <<"b">>) }

SavedConfig(filters) ==
    Config(save_filters_to_json(filters).ignore, <<>>,
           save_filters_to_json(filters).edit)

EditorConfigs ==
    {SavedConfig(f) : f \in SeqUpTo(EditorFilters, MaxFilters)} \cup
    { Config(<<>>, << <<<<"b">>, <<>>>> >>, <<>>),
      Config(<<>>, << <<<<"a">>, <<"b">>>> >>, <<>>) }

InitEditorFiles ==
    \/ /\ InitFiles(SeqUpTo(Sources, MaxDownloaders),
                    Manifests(EditorLines, MaxLines), EditorConfigs)
       /\ InitPrograms
    \/ InitSide

\* calls of FiltersChain.apply: every chain of up to MaxFilters filters,
\* one of them a chain itself, on the paths "a" and "ab"
ChainFilters ==
    { IgnoreFilter(<<"a">>), IgnoreFilter(<<"b">>),
      EditFilter(<<"a">>, <<"b">>), EditFilter(<<"b">>, <<"c">>),
      FiltersChain(<<EditFilter(<<"a">>, <<"b">>), IgnoreFilter(<<"b">>)>>) }

ChainInputs ==
    { [filters |-> f, path |-> p] :
         f \in SeqUpTo(ChainFilters, MaxFilters),
         p \in {<<"a">>, <<"a", "b">>} }

InitChain ==
    \/ /\ InitFiles({<<"A">>}, {AbsentFile, FileOf(<< <<"a", " ", "x">> >>)},
                    {Config(<<>>, <<>>, <<>>)})
       /\ \/ InitPrograms
          \/ InitChainCall(ChainInputs)
    \/ InitSide

\* the script run Runs times on the same files: manifests that are absent,
\* hold one of the lines of RenderLines or hold "d/b y" then "a x"; the
\* filters.json of RenderConfigs, one with an ignore pattern, a corrupt one
RerunManifests ==
    {AbsentFile} \cup {FileOf(<<l>>) : l \in RenderLines} \cup
    {FileOf(<< <<"d", "/", "b", " ", "y">>, <<"a", " ", "x">> >>)}

RerunConfigs ==
    RenderConfigs \cup {Config(<< <<"b">> >>, <<>>, <<>>), NoConfig("corrupt")}

InitRerun ==
    \/ /\ InitFiles(SeqUpTo(Sources, MaxDownloaders), RerunManifests,
                    RerunConfigs)
       /\ \/ InitMake(Runs)
          \/ InitEdit
    \/ InitSide

\* calls of the application on a FileWatcher, a widget or a FileList
MaxCalls == 3

\* a FileWatcher whose application registers callbacks, writes files and
\* polls: two files, on disk or not
InitWatch ==
    \/ /\ CoreOff
       /\ InitWatcher(MaxCalls, WatchOps, PlainCallbacks, SUBSET WatchPaths)
       /\ OffExcept({"watcher"})
    \/ InitSide

\* callbacks that call watch_file or unwatch_file on their watcher
ReentrantCallbacks ==
    { Plain("c1"), Watches("w", "q"), Unwatches("u", "p"),
      Unwatches("v", "q"), RemovesItself("s", "p") }

\* a FileWatcher whose callbacks call it back; both files are on disk
InitReentrant ==
    \/ /\ CoreOff
       /\ InitWatcher(MaxCalls, {"watch_file", "check_changes"},
                      ReentrantCallbacks, {WatchPaths})
       /\ OffExcept({"watcher"})
    \/ InitSide

\* calls of the application on a table
TableCalls == 2

\* providers of at most MaxRows rows: one that does not change, one that
\* grows, one that shrinks, one that changes twice, one that shrinks and
\* grows again
TableProviders ==
    { Provider(<<"u", "v">>, <<>>),
      Provider(<<"u">>, << <<"v", "u">> >>),
      Provider(<<"u", "v">>, << <<"v">> >>),
      Provider(<<>>, << <<"u", "v">>, <<"v", "u">> >>),
      Provider(<<"u", "v">>, << <<"u">>, <<"u", "v">> >>) }

InitTableRuns ==
    \/ /\ CoreOff
       /\ InitTable(TableCalls, TableProviders)
       /\ OffExcept({"table"})
    \/ InitSide

InitTabRuns ==
    \/ /\ CoreOff
       /\ InitTab(MaxCalls)
       /\ OffExcept({"tab"})
    \/ InitSide

\* saves of each process
MaxSaves == 1

\* the editor and the filter browser both run and save filters.json
InitSaveRuns ==
    \/ /\ CoreOff
       /\ InitSave(Savers, MaxSaves)
       /\ OffExcept({"save"})
    \/ InitSide

\* calls on the FileList of an editor with one or two manifests that hold
\* "a x", "b y" or are absent
InitListRuns ==
    \/ /\ InitFiles({<<"A">>, <<"A", "B">>}, {AbsentFile} \cup ListManifests,
                    {Config(<<>>, <<>>, <<>>)})
       /\ ~argv.dump
       /\ InitProgram("off")
       /\ InitEditor("calls")
       /\ InitRuns(1)
       /\ InitCall("off", {NoCall})
       /\ fl_is_loaded = FALSE
       /\ fl_calls = MaxCalls
       /\ OffExcept({"list"})
    \/ InitSide

\* the filters of the lists that are saved and loaded
RoundTripFilters ==
    { IgnoreFilter(<<"a">>), IgnoreFilter(<<"b">>),
      EditFilter(<<"a">>, <<"b">>), EditFilter(<<"b">>, <<"c">>),
      IgnoreFilter(<<"(">>) }

InitRoundTrips ==
    \/ /\ CoreOff
       /\ InitRoundTrip(SeqUpTo(RoundTripFilters, MaxFilters))
       /\ OffExcept({"round_trip"})
    \/ InitSide

\* the pairs of files.replace: a find pattern or a replacement may hold "|"
KeyPairs ==
    { <<<<"a">>, <<"c">>>>, <<<<"a", "|", "b">>, <<"c">>>>,
      <<<<"a">>, <<"b", "|", "c">>>>, <<<<"b">>, <<>>>> }

InitRowKeyRuns ==
    \/ /\ CoreOff
       /\ InitRowKeys(SeqUpTo(KeyPairs, MaxFilters))
       /\ OffExcept({"row_keys"})
    \/ InitSide

----------------------------------------------------------------------------
(* Actions *)

\* mutant: no try/except around the load, the exception ends the script
LoadFilters_NoTry ==
    /\ pc = "import"
    /\ IF fs_filters.state = "ok"
       THEN /\ IGNORE_FILTERS' = fs_filters.ignore
            /\ REPLACE_FILTERS' = fs_filters.replace
            /\ pc' = "main"
       ELSE /\ IGNORE_FILTERS' = <<>>
            /\ REPLACE_FILTERS' = <<>>
            /\ pc' = IF fs_filters.state = "missing" THEN "main" ELSE "raised"
    /\ UNCHANGED <<uiVars, envVars, edVars, runVars, fnVars, di, rules, ri, loc, targets,
                   ti, dir_deps, out, json_out>>

\* module level, build_makefile.py:16-27
LoadFilters ==
    /\ pc = "import"
    /\ IF fs_filters.state = "ok"
       THEN /\ IGNORE_FILTERS' = fs_filters.ignore
            /\ REPLACE_FILTERS' = fs_filters.replace
       ELSE /\ IGNORE_FILTERS' = <<>>
            /\ REPLACE_FILTERS' = <<>>
    /\ pc' = "main"
    /\ UNCHANGED <<uiVars, envVars, edVars, runVars, fnVars, di, rules, ri, loc, targets,
                   ti, dir_deps, out, json_out>>

\* main, lines 114-120: parse_args and the call of generate_targets_dict;
\* nargs='+' makes argparse exit with status 2 when no name is given
ParseArgs ==
    /\ pc = "main"
    /\ IF argv.downloaders = <<>>
       THEN pc' = "usage_error" /\ di' = di
       ELSE pc' = "generate" /\ di' = 1
    /\ UNCHANGED <<uiVars, envVars, edVars, runVars, fnVars, IGNORE_FILTERS,
                   REPLACE_FILTERS, rules, ri, loc, targets, ti, dir_deps,
                   out, json_out>>

\* generate_targets_dict, lines 92-94: the next downloader's rules
ParseParams ==
    /\ pc = "generate"
    /\ di <= Len(argv.downloaders)
    /\ LET downloader == argv.downloaders[di]
           r == parse_params_file(ParamsFile(downloader), downloader)
       IN  /\ rules' = r
           /\ IF r = <<>>
              THEN di' = di + 1 /\ ri' = 0 /\ pc' = "generate"
              ELSE di' = di /\ ri' = 1 /\ pc' = "rules"
    /\ UNCHANGED <<uiVars, envVars, edVars, runVars, fnVars, IGNORE_FILTERS,
                   REPLACE_FILTERS, loc, targets, ti, dir_deps, out, json_out>>

\* generate_targets_dict, lines 96-109: one iteration of the rules loop
ResolveRule ==
    /\ pc = "rules"
    /\ ri <= Len(rules)
    /\ LET rule == rules[ri]
           path == PathOf(rule[1])
           n == normalize_path(rule[3], path)
       IN  /\ loc' = [bound |-> TRUE, target |-> rule[1], source |-> rule[3],
                      path |-> path, norm_key |-> n.path,
                      applied_filters |-> n.trace]
           /\ targets' = ResolveInto(targets, rule)
    /\ IF ri = Len(rules)
       THEN di' = di + 1 /\ ri' = 0 /\ pc' = "generate"
       ELSE di' = di /\ ri' = ri + 1 /\ pc' = "rules"
    /\ UNCHANGED <<uiVars, envVars, edVars, runVars, fnVars, IGNORE_FILTERS,
                   REPLACE_FILTERS, rules, ti, dir_deps, out, json_out>>

----------------------------------------------------------------------------
(* main: the two output modes *)

\* the dictionary built at lines 124-139
RECURSIVE DumpSources(_)
DumpSources(sources) ==
    IF sources = <<>> THEN <<>>
    ELSE <<[target |-> sources[1][1], source |-> sources[1][3],
            applied_filters |-> sources[1][4]]>> \o DumpSources(Tail(sources))

DumpData ==
    [targets |-> [i \in 1..Len(targets) |->
                     [key |-> targets[i].key,
                      val |-> DumpSources(targets[i].val)]],
     filters |-> [ignore |-> IGNORE_FILTERS, replace |-> REPLACE_FILTERS]]

\* lines 122-141: --dump prints the dictionary and returns
DumpJson ==
    /\ pc = "generate"
    /\ di > Len(argv.downloaders)
    /\ argv.dump
    /\ json_out' = Append(json_out, DumpData)
    /\ pc' = "done"
    /\ UNCHANGED <<uiVars, envVars, edVars, runVars, fnVars, IGNORE_FILTERS,
                   REPLACE_FILTERS, di, rules, ri, loc, targets, ti, dir_deps,
                   out>>

RECURSIVE Names(_)
Names(l) == IF l = <<>> THEN <<>> ELSE <<<<Head(l)>>>> \o Names(Tail(l))

\* lines 144-149: the head of the Makefile
EmitPreamble ==
    /\ pc = "generate"
    /\ di > Len(argv.downloaders)
    /\ ~argv.dump
    /\ out' = out \o << <<"# Generated Makefile from params files">>,
                        <<"# Sources: ">> \o Join(Names(argv.downloaders), <<", ">>)
                            \o <<" (in priority order)">>,
                        <<>> >>
    /\ dir_deps' = <<>>
    /\ ti' = 1
    /\ pc' = "emit"
    /\ UNCHANGED <<uiVars, envVars, edVars, runVars, fnVars, IGNORE_FILTERS,
                   REPLACE_FILTERS, di, rules, ri, loc, targets, json_out>>

\* "_, command, source = entry" raises ValueError unless entry has 3 items
Unpacks3(entry) == Len(entry) = 3

RECURSIVE SourceNames(_)
SourceNames(sources) ==
    IF sources = <<>> THEN <<>>
    ELSE <<<<sources[1][3]>>>> \o SourceNames(Tail(sources))

\* lines 175-179: the loop over the sources of a target with several
RECURSIVE ChainLines(_, _, _)
ChainLines(sources, i, printed) ==
    IF i > Len(sources) THEN [lines |-> printed, raised |-> FALSE]
    ELSE IF ~Unpacks3(sources[i]) THEN [lines |-> printed, raised |-> TRUE]
    ELSE ChainLines(sources, i + 1,
             Append(printed,
                    IF i < Len(sources)
                    THEN <<"\t">> \o sources[i][2] \o <<" || \\">>
                    ELSE <<"\t">> \o sources[i][2]))

\* lines 164-181: what one target prints, and whether it raised
RuleLines(sources) ==
    LET target == sources[1][1]
        head == << EscapeDollar(target) \o <<": scripts/filters.json">>,
                   <<"\t@mkdir -p $(dir $@)">> >>
    IN  IF Len(sources) = 1
        THEN IF ~Unpacks3(sources[1])
             THEN [lines |-> head, raised |-> TRUE]
             ELSE [lines |-> head \o << <<"\t">> \o sources[1][2],
                                        <<"# Source: ", sources[1][3]>>,
                                        <<>> >>,
                   raised |-> FALSE]
        ELSE LET r == ChainLines(sources, 1,
                          Append(head, <<"# Sources: ">>
                                       \o Join(SourceNames(sources), <<", ">>)))
             IN  IF r.raised THEN r
                 ELSE [lines |-> Append(r.lines, <<>>), raised |-> FALSE]

\* lines 158-162: dir_deps after one target
TrackDirectory(deps, target) ==
    LET parent_dir == Dirname(target) IN
    IF parent_dir # <<>> /\ parent_dir # <<"d", "a", "t", "a">>
    THEN AppendCandidate(deps, parent_dir, target)
    ELSE deps

\* lines 152-181: one iteration of the output loop
EmitRule ==
    /\ pc = "emit"
    /\ ti <= Len(targets)
    /\ LET sources == targets[ti].val
           r == RuleLines(sources)
       IN  /\ dir_deps' = TrackDirectory(dir_deps, sources[1][1])
           /\ out' = out \o r.lines
           /\ IF r.raised
              THEN pc' = "raised" /\ ti' = ti
              ELSE pc' = "emit" /\ ti' = ti + 1
    /\ UNCHANGED <<uiVars, envVars, edVars, runVars, fnVars, IGNORE_FILTERS,
                   REPLACE_FILTERS, di, rules, ri, loc, targets, json_out>>

RECURSIVE EscapeAll(_)
EscapeAll(l) ==
    IF l = <<>> THEN <<>> ELSE <<EscapeDollar(Head(l))>> \o EscapeAll(Tail(l))

DirKeys(deps) == [i \in 1..Len(deps) |-> deps[i].key]

\* lines 191-197: the rules of the directories, in sorted order
RECURSIVE DirectoryLines(_, _)
DirectoryLines(deps, dirs) ==
    IF dirs = <<>> THEN <<>>
    ELSE LET directory == Head(dirs)
             members == deps[KeyIndex(deps, directory, 1)].val
         IN  << EscapeDollar(directory) \o <<": ">>
                    \o Join(EscapeAll(SortStrings(members)), <<" ">>),
                <<"\t@echo \"Downloaded ", ToString(Len(members)),
                  " files to ">> \o directory \o <<"\"">>,
                <<>> >> \o DirectoryLines(deps, Tail(dirs))

\* lines 184-197: the directory targets, then main returns
EmitDirs ==
    /\ pc = "emit"
    /\ ti > Len(targets)
    /\ out' = out \o << <<"# Directory targets">> >> \o
          (IF dir_deps # <<>>
           THEN << <<".PHONY: ">>
                      \o Join(EscapeAll(SortStrings(DirKeys(dir_deps))), <<" ">>),
                   <<>> >>
                \o DirectoryLines(dir_deps, SortStrings(DirKeys(dir_deps)))
           ELSE <<>>)
    /\ pc' = "done"
    /\ UNCHANGED <<uiVars, envVars, edVars, runVars, fnVars, IGNORE_FILTERS,
                   REPLACE_FILTERS, di, rules, ri, loc, targets, ti, dir_deps,
                   json_out>>

----------------------------------------------------------------------------
(* The editor: EditorApp and FileList as actions *)

\* EditorApp.load_all_data: FileList.load, the display refresh of
\* FilesWidget.load_data (skipped when no params file is found), then the
\* filters of filters.json are set on the FileList
EdLoadAllData ==
    /\ ed_pc = "start"
    /\ \E downloaders \in GlobOrders :
          LET raw == LoadAll(<<>>, downloaders)
              filtered == apply_filters(raw, ed_filters)
          IN  /\ ed_downloaders' = downloaders
              /\ ed_raw_data' = raw
              /\ IF downloaders = <<>>
                 THEN UNCHANGED <<ed_results, ed_filtered_data>>
                 ELSE /\ ed_results' = filtered
                      /\ ed_filtered_data' = FilteredData(filtered)
    /\ ed_filters' = load_filters_from_json(FilterData)
    /\ ed_needs_refresh' = TRUE
    /\ ed_pc' = "loaded"
    /\ UNCHANGED <<uiVars, envVars, makeVars, runVars, fnVars>>

\* FileList.refresh, reached through __len__, __getitem__, get_keys and
\* FilesWidget.refresh_display
EdRefresh ==
    /\ ed_pc = "loaded"
    /\ LET filtered == apply_filters(ed_raw_data, ed_filters)
       IN  /\ ed_results' = filtered
           /\ ed_filtered_data' = FilteredData(filtered)
    /\ ed_needs_refresh' = FALSE
    /\ UNCHANGED <<uiVars, envVars, makeVars, runVars, fnVars, ed_pc, ed_downloaders, ed_raw_data,
                   ed_filters>>

----------------------------------------------------------------------------
(* Successive runs of the script, and FiltersChain.apply called directly *)

\* the script has ended: by returning, by an exception or in argparse
Exited == pc \in {"done", "raised", "usage_error"}

\* mutant: the dictionary of the run before is still there
Rerun_KeepsTargets ==
    /\ Exited
    /\ run < runs
    /\ run' = run + 1
    /\ last_run' = [pc |-> pc, out |-> out, json_out |-> json_out]
    /\ pc' = "import"
    /\ out' = <<>>
    /\ json_out' = <<>>
    /\ UNCHANGED <<uiVars, envVars, edVars, fnVars, runs, IGNORE_FILTERS,
                   REPLACE_FILTERS, di, rules, ri, loc, targets, ti, dir_deps>>

\* the script is started again on the same files: a new process, with the
\* module globals and the locals as they are before the first statement
Rerun ==
    /\ Exited
    /\ run < runs
    /\ run' = run + 1
    /\ last_run' = [pc |-> pc, out |-> out, json_out |-> json_out]
    /\ IGNORE_FILTERS' = <<>>
    /\ REPLACE_FILTERS' = <<>>
    /\ pc' = "import"
    /\ di' = 0
    /\ rules' = <<>>
    /\ ri' = 0
    /\ loc' = [bound |-> FALSE, target |-> <<>>, source |-> "", path |-> <<>>,
               norm_key |-> <<>>, applied_filters |-> <<>>]
    /\ targets' = <<>>
    /\ ti' = 0
    /\ dir_deps' = <<>>
    /\ out' = <<>>
    /\ json_out' = <<>>
    /\ UNCHANGED <<uiVars, envVars, edVars, fnVars, runs>>

\* FiltersChain(*filters).apply(path)
FiltersChainApply ==
    /\ fn_pc = "call"
    /\ fn_out' = FilterApply(FiltersChain(fn_in.filters), fn_in.path)
    /\ fn_pc' = "returned"
    /\ UNCHANGED <<uiVars, envVars, makeVars, edVars, runVars, fn_in>>
----------------------------------------------------------------------------
(* The FileWatcher: the calls of the application and check_changes *)

Watcher == [watched_files |-> watched_files, last_mtimes |-> last_mtimes]

\* the application calls watch_file(file_path, callback)
WatchFile ==
    /\ w_pc = "idle"
    /\ w_calls > 0
    /\ "watch_file" \in w_app.ops
    /\ \E file_path \in WatchPaths, callback \in w_app.callbacks :
          LET w == watch_file(Watcher, file_path, callback)
          IN  /\ watched_files' = w.watched_files
              /\ last_mtimes' = w.last_mtimes
    /\ w_calls' = w_calls - 1
    /\ UNCHANGED <<besideWatch, w_pc, w_app, w_disk, w_now, w_iter, w_invoked,
                   w_changed, w_seen>>

\* the application calls unwatch_file(file_path) or
\* unwatch_file(file_path, callback)
UnwatchFile ==
    /\ w_pc = "idle"
    /\ w_calls > 0
    /\ "unwatch_file" \in w_app.ops
    /\ \E file_path \in WatchPaths, callback \in w_app.callbacks \cup {None} :
          LET w == unwatch_file(Watcher, file_path, callback)
          IN  /\ watched_files' = w.watched_files
              /\ last_mtimes' = w.last_mtimes
    /\ w_calls' = w_calls - 1
    /\ UNCHANGED <<besideWatch, w_pc, w_app, w_disk, w_now, w_iter, w_invoked,
                   w_changed, w_seen>>

\* a file is written: its st_mtime becomes the time of the file system's
\* clock, which has a finite resolution (the clock may not have advanced
\* since the last write)
ModifyFile ==
    /\ w_pc \in {"idle", "for", "callbacks"}
    /\ w_calls > 0
    /\ "modify" \in w_app.ops
    /\ \E file_path \in WatchPaths, t \in {w_now, w_now + 1} :
          /\ w_now' = t
          /\ w_disk' = [w_disk EXCEPT ![file_path] = [exists |-> TRUE, mtime |-> t]]
          /\ w_changed' = w_changed \cup {file_path}
    /\ w_calls' = w_calls - 1
    /\ UNCHANGED <<besideWatch, w_pc, w_app, watched_files, last_mtimes, w_iter,
                   w_invoked, w_seen>>

LiveCount(files) == Cardinality({e \in DOMAIN files : files[e].live})

\* check_changes is called: the for statement makes the iterator of
\* self.watched_files.items(), watch.py:51
CheckChanges ==
    /\ w_pc = "idle"
    /\ "check_changes" \in w_app.ops
    /\ w_iter' = [used |-> LiveCount(watched_files), pos |-> 1, entry |-> 0,
                  k |-> 0]
    /\ w_invoked' = <<>>
    /\ w_seen' = NotSeen
    /\ w_pc' = "for"
    /\ UNCHANGED <<besideWatch, w_app, w_calls, watched_files, last_mtimes,
                   w_disk, w_now, w_changed>>

\* the for statement asks for the next item: RuntimeError (outside both try
\* blocks) when the size of the dictionary changed, else the next live
\* entry; then lines 53-60 on that file
CheckNextFile ==
    /\ w_pc = "for"
    /\ LET later == {e \in DOMAIN watched_files :
                        e >= w_iter.pos /\ watched_files[e].live}
       IN  IF LiveCount(watched_files) # w_iter.used
           THEN /\ w_pc' = "raised"
                /\ UNCHANGED <<last_mtimes, w_iter, w_changed, w_seen>>
           ELSE IF later = {}
           THEN /\ w_pc' = "idle"
                /\ UNCHANGED <<last_mtimes, w_iter, w_changed, w_seen>>
           ELSE LET e == CHOOSE x \in later : \A y \in later : x <= y
                    file_path == watched_files[e].path
                    current_mtime == w_disk[file_path].mtime
                    last == IF file_path \in DOMAIN last_mtimes
                            THEN last_mtimes[file_path] ELSE 0
                IN  IF ~w_disk[file_path].exists
                    THEN /\ w_iter' = [w_iter EXCEPT !.pos = e + 1]
                         /\ UNCHANGED <<w_pc, last_mtimes, w_changed, w_seen>>
                    ELSE /\ w_seen' = [path |-> file_path,
                                       changed |-> file_path \in w_changed,
                                       fired |-> current_mtime > last,
                                       registered |-> watched_files[e].callbacks]
                         /\ w_changed' = w_changed \ {file_path}
                         /\ IF current_mtime > last
                            THEN /\ last_mtimes' = (file_path :> current_mtime)
                                                      @@ last_mtimes
                                 /\ w_iter' = [w_iter EXCEPT !.pos = e + 1,
                                                             !.entry = e, !.k = 1]
                                 /\ w_pc' = "callbacks"
                            ELSE /\ w_iter' = [w_iter EXCEPT !.pos = e + 1]
                                 /\ UNCHANGED <<w_pc, last_mtimes>>
    /\ UNCHANGED <<besideWatch, w_app, w_calls, watched_files, w_disk, w_now,
                   w_invoked>>

\* for callback in callbacks: the next callback of the list object is
\* invoked, lines 61-65; the loop ends when the list has no further element
CheckCallback ==
    /\ w_pc = "callbacks"
    /\ LET callback == watched_files[w_iter.entry].callbacks[w_iter.k]
           w == Invoke(Watcher, callback)
       IN  /\ w_invoked' = Append(w_invoked,
                                  [path |-> watched_files[w_iter.entry].path,
                                   name |-> callback.name])
           /\ watched_files' = w.watched_files
           /\ last_mtimes' = w.last_mtimes
           /\ w_iter' = [w_iter EXCEPT !.k = @ + 1]
           /\ w_pc' = IF w_iter.k + 1 > Len(w.watched_files[w_iter.entry].callbacks)
                      THEN "for" ELSE "callbacks"
    /\ UNCHANGED <<besideWatch, w_app, w_calls, w_disk, w_now, w_changed, w_seen>>

----------------------------------------------------------------------------
(* The VirtualDataTable: the provider, the calls and the background tasks *)

\* the provider's data changes, and its version with it: the next of the
\* changes to come
ProviderChange ==
    /\ t_pc = "mounted"
    /\ provider.changes # <<>>
    /\ provider' = [version |-> provider.version + 1,
                    rows |-> Head(provider.changes),
                    changes |-> Tail(provider.changes)]
    /\ UNCHANGED <<besideTable, t_pc, t_calls, t_rows, row_versions,
                   t_last_version, t_tasks, t_update_task, t_call>>

\* _adjust_row_count is called
AdjustRowCount ==
    /\ t_pc = "mounted"
    /\ t_calls > 0
    /\ t_rows' = adjust_row_count(t_rows, Len(provider.rows))
    /\ t_calls' = t_calls - 1
    /\ UNCHANGED <<besideTable, t_pc, provider, row_versions, t_last_version,
                   t_tasks, t_update_task, t_call>>

\* update_range(start, stop) is called
UpdateRange ==
    /\ t_pc = "mounted"
    /\ t_calls > 0
    /\ \E start \in -1..(MaxRows - 1), stop \in 1..(MaxRows + 1) :
          LET t == update_range(t_rows, row_versions, provider, start, stop)
          IN  /\ t_rows' = t.rows
              /\ row_versions' = t.versions
              /\ t_call' = CallOf(start, stop, t)
    /\ t_calls' = t_calls - 1
    /\ UNCHANGED <<besideTable, t_pc, provider, t_last_version, t_tasks,
                   t_update_task>>

\* _get_offsets, called when the table is drawn: the row count is adjusted
\* and the visible rows first_visible .. last_visible are updated
GetOffsets ==
    /\ t_pc = "mounted"
    /\ t_calls > 0
    /\ \E first_visible \in 0..(MaxRows - 1), last_visible \in 1..MaxRows :
          LET adjusted == adjust_row_count(t_rows, Len(provider.rows))
              t == update_range(adjusted, row_versions, provider,
                                first_visible,
                                Min(Len(provider.rows), last_visible))
          IN  /\ t_rows' = t.rows
              /\ row_versions' = t.versions
              /\ t_call' = CallOf(first_visible,
                                  Min(Len(provider.rows), last_visible), t)
    /\ t_calls' = t_calls - 1
    /\ UNCHANGED <<besideTable, t_pc, provider, t_last_version, t_tasks,
                   t_update_task>>

\* mutant: the task of the trigger before is left running
TriggerUpdate_NoCancel ==
    /\ t_pc = "mounted"
    /\ t_calls > 0
    /\ t_calls' = t_calls - 1
    /\ IF provider.version # t_last_version
       THEN /\ t_last_version' = provider.version
            /\ t_tasks' = Append(t_tasks, Task(provider.version))
            /\ t_update_task' = Len(t_tasks) + 1
       ELSE UNCHANGED <<t_last_version, t_tasks, t_update_task>>
    /\ UNCHANGED <<besideTable, t_pc, provider, t_rows, row_versions, t_call>>

\* trigger_update is called
TriggerUpdate ==
    /\ t_pc = "mounted"
    /\ t_calls > 0
    /\ t_calls' = t_calls - 1
    /\ IF provider.version # t_last_version
       THEN /\ t_last_version' = provider.version
            /\ t_tasks' =
                  Append(IF t_update_task # 0 /\ ~Done(t_tasks[t_update_task])
                         THEN [t_tasks EXCEPT ![t_update_task].cancel = TRUE]
                         ELSE t_tasks,
                         Task(provider.version))
            /\ t_update_task' = Len(t_tasks) + 1
       ELSE UNCHANGED <<t_last_version, t_tasks, t_update_task>>
    /\ UNCHANGED <<besideTable, t_pc, provider, t_rows, row_versions, t_call>>

\* the event loop runs task number n of _background_update up to its next
\* await: a task asked to cancel gets CancelledError and ends; a new task
\* adjusts the row count and enters the loop; then, while the range has a
\* chunk left, the chunk is updated (an exception of update_range is logged
\* and ends the task) and the task is suspended at asyncio.sleep(0)
BackgroundStep(n) ==
    LET task == t_tasks[n]
        started == task.state = "suspended"
        rows == IF started THEN t_rows
                ELSE adjust_row_count(t_rows, Len(provider.rows))
        stop == IF started THEN task.n ELSE Len(provider.rows)
        t == update_range(rows, row_versions, provider, task.i,
                          Min(task.i + chunk_size, Len(provider.rows)))
    IN  /\ ~Done(task)
        /\ IF task.cancel
           THEN /\ t_tasks' = [t_tasks EXCEPT ![n].state = "cancelled"]
                /\ UNCHANGED <<t_rows, row_versions, t_call>>
           ELSE IF task.i >= stop
           THEN /\ t_tasks' = [t_tasks EXCEPT ![n].state = "done", ![n].n = stop]
                /\ t_rows' = rows
                /\ UNCHANGED <<row_versions, t_call>>
           ELSE /\ t_rows' = t.rows
                /\ row_versions' = t.versions
                /\ t_call' = CallOf(task.i, Min(task.i + chunk_size,
                                                Len(provider.rows)), t)
                /\ t_tasks' = [t_tasks EXCEPT
                                  ![n].state = IF t.raised THEN "failed"
                                               ELSE "suspended",
                                  ![n].n = stop,
                                  ![n].i = task.i + chunk_size]

BackgroundUpdate ==
    /\ t_pc = "mounted"
    /\ \E n \in DOMAIN t_tasks : BackgroundStep(n)
    /\ UNCHANGED <<besideTable, t_pc, t_calls, provider, t_last_version,
                   t_update_task>>

----------------------------------------------------------------------------
(* The FiltersTabWidget *)

\* the filter lists and filters the application passes to the widget
TabFilters == {IgnoreFilter(<<"a">>), EditFilter(<<"a">>, <<"b">>)}

\* _refresh_table, lines 126-129: the rows after a change to filters
RefreshedTable(filters) ==
    IF ft_has_table THEN FilterRows(filters) ELSE ft_table

\* load_data(table, filters) is called
TabLoadData ==
    /\ ft_pc = "made"
    /\ ft_calls > 0
    /\ \E filters \in SeqUpTo(TabFilters, MaxFilters) :
          /\ filter_objects' = filters
          /\ ft_table' = FilterRows(filters)
          /\ ft_last' = TabCall("load_data", -1, filter_objects, "none", <<>>)
    /\ ft_has_table' = TRUE
    /\ ft_calls' = ft_calls - 1
    /\ UNCHANGED <<besideTab, ft_pc>>

\* set_filters(filters) is called
TabSetFilters ==
    /\ ft_pc = "made"
    /\ ft_calls > 0
    /\ \E filters \in SeqUpTo(TabFilters, MaxFilters) :
          /\ filter_objects' = filters
          /\ ft_last' = TabCall("set_filters", -1, filter_objects, "none",
                               <<filters>>)
    /\ ft_calls' = ft_calls - 1
    /\ UNCHANGED <<besideTab, ft_pc, ft_has_table, ft_table>>

\* add_filter(filter_obj) is called
TabAddFilter ==
    /\ ft_pc = "made"
    /\ ft_calls > 0
    /\ Len(filter_objects) < MaxFilters + 1
    /\ \E filter_obj \in TabFilters :
          LET filters == Append(filter_objects, filter_obj)
          IN  /\ filter_objects' = filters
              /\ ft_table' = RefreshedTable(filters)
              /\ ft_last' = TabCall("add_filter", -1, filter_objects, "none",
                                    <<filters>>)
    /\ ft_calls' = ft_calls - 1
    /\ UNCHANGED <<besideTab, ft_pc, ft_has_table>>

\* remove_filter_at(index) is called
TabRemoveFilterAt ==
    /\ ft_pc = "made"
    /\ ft_calls > 0
    /\ \E index \in -1..(MaxFilters + 1) :
          IF 0 <= index /\ index < Len(filter_objects)
          THEN LET filters == SubSeq(filter_objects, 1, index) \o
                              SubSeq(filter_objects, index + 2,
                                     Len(filter_objects))
               IN  /\ filter_objects' = filters
                   /\ ft_table' = RefreshedTable(filters)
                   /\ ft_last' = TabCall("remove_filter_at", index,
                                         filter_objects, "removed",
                                         <<filters>>)
          ELSE /\ ft_last' = TabCall("remove_filter_at", index, filter_objects,
                                     "None", <<>>)
               /\ UNCHANGED <<filter_objects, ft_table>>
    /\ ft_calls' = ft_calls - 1
    /\ UNCHANGED <<besideTab, ft_pc, ft_has_table>>

\* update_filter_at(index, new_filter) is called
TabUpdateFilterAt ==
    /\ ft_pc = "made"
    /\ ft_calls > 0
    /\ \E index \in -1..(MaxFilters + 1), new_filter \in TabFilters :
          IF 0 <= index /\ index < Len(filter_objects)
          THEN LET filters == [filter_objects EXCEPT ![index + 1] = new_filter]
               IN  /\ filter_objects' = filters
                   /\ ft_table' = RefreshedTable(filters)
                   /\ ft_last' = TabCall("update_filter_at", index,
                                         filter_objects, "True", <<filters>>)
          ELSE /\ ft_last' = TabCall("update_filter_at", index, filter_objects,
                                     "False", <<>>)
               /\ UNCHANGED <<filter_objects, ft_table>>
    /\ ft_calls' = ft_calls - 1
    /\ UNCHANGED <<besideTab, ft_pc, ft_has_table>>

----------------------------------------------------------------------------
(* Saving and reading filters.json *)

\* the configuration a process saves: its own filters
ConfigOf(s) == s

\* open(temp_file, "w"), editor/filters.py:12, app.py:175,
\* interactive_filter.py:183
SaveOpen ==
    \E s \in Savers :
       /\ sv_pc[s] = "idle"
       /\ sv_left[s] > 0
       /\ LET d == OpenTruncate([dir |-> sv_dir, inodes |-> sv_inodes])
          IN  /\ sv_dir' = d.dir
              /\ sv_inodes' = d.inodes
              /\ sv_fd' = [sv_fd EXCEPT ![s] = [inode |-> d.dir.tmp,
                                                offset |-> 1]]
       /\ sv_pc' = [sv_pc EXCEPT ![s] = "writing"]
       /\ sv_left' = [sv_left EXCEPT ![s] = @ - 1]
       /\ UNCHANGED <<besideSave, sv_read>>

\* json.dump: the next part of the document is written to the open file
\* at its offset; after the last part the with block closes the file
SaveWrite ==
    \E s \in Savers :
       /\ sv_pc[s] = "writing"
       /\ sv_inodes' = [sv_inodes EXCEPT ![sv_fd[s].inode] =
                           WriteAt(@, sv_fd[s].offset, ConfigOf(s))]
       /\ sv_fd' = [sv_fd EXCEPT ![s].offset = @ + 1]
       /\ sv_pc' = [sv_pc EXCEPT ![s] = IF sv_fd[s].offset = Parts
                                        THEN "closed" ELSE "writing"]
       /\ UNCHANGED <<besideSave, sv_left, sv_dir, sv_read>>

\* os.rename(temp_file, "./scripts/filters.json"): FileNotFoundError when
\* the temporary name is gone
SaveRename ==
    \E s \in Savers :
       /\ sv_pc[s] = "closed"
       /\ IF sv_dir.tmp = 0
          THEN /\ sv_pc' = [sv_pc EXCEPT ![s] = "raised"]
               /\ UNCHANGED sv_dir
          ELSE /\ sv_pc' = [sv_pc EXCEPT ![s] = "idle"]
               /\ sv_dir' = [json |-> sv_dir.tmp, tmp |-> 0]
       /\ sv_fd' = [sv_fd EXCEPT ![s] = NoFile]
       /\ UNCHANGED <<besideSave, sv_left, sv_inodes, sv_read>>

\* a reader opens filters.json and reads it: build_makefile.py:20-21,
\* load_filters, load_all_data
ReadFilters ==
    /\ \E s \in Savers : sv_pc[s] # "off"
    /\ sv_read' = sv_inodes[sv_dir.json]
    /\ sv_read' # sv_read
    /\ UNCHANGED <<besideSave, sv_pc, sv_left, sv_dir, sv_inodes, sv_fd>>

----------------------------------------------------------------------------
(* Calls on a FileList *)

\* the filter lists the application sets on the FileList
ListFilters == {<<>>, <<IgnoreFilter(<<"a">>)>>, <<EditFilter(<<"a">>, <<"b">>)>>}

\* FileList.load is called
FileListLoad ==
    /\ ed_pc = "calls"
    /\ fl_calls > 0
    /\ \E downloaders \in GlobOrders :
          /\ ed_downloaders' = downloaders
          /\ ed_raw_data' = LoadAll(<<>>, downloaders)
    /\ fl_is_loaded' = TRUE
    /\ fl_calls' = fl_calls - 1
    /\ UNCHANGED <<besideList, fs_params, ed_pc, ed_filters, ed_needs_refresh,
                   ed_results, ed_filtered_data>>

\* FileList.set_filters is called
FileListSetFilters ==
    /\ ed_pc = "calls"
    /\ fl_calls > 0
    /\ \E filters \in ListFilters :
          /\ filters # ed_filters
          /\ ed_filters' = filters
    /\ ed_needs_refresh' = TRUE
    /\ fl_calls' = fl_calls - 1
    /\ UNCHANGED <<besideList, fs_params, fl_is_loaded, ed_pc, ed_downloaders,
                   ed_raw_data, ed_results, ed_filtered_data>>

\* refresh, lines 149-163, with the load of line 152 when nothing is loaded
RefreshNow ==
    \E downloaders \in GlobOrders :
       LET raw == IF fl_is_loaded THEN ed_raw_data
                  ELSE LoadAll(<<>>, downloaders)
           filtered == apply_filters(raw, ed_filters)
       IN  /\ ed_downloaders' = IF fl_is_loaded THEN ed_downloaders
                                ELSE downloaders
           /\ ed_raw_data' = raw
           /\ ed_results' = filtered
           /\ ed_filtered_data' = FilteredData(filtered)
           /\ ed_needs_refresh' = FALSE
           /\ fl_is_loaded' = TRUE

\* FileList.refresh is called
FileListRefresh ==
    /\ ed_pc = "calls"
    /\ fl_calls > 0
    /\ RefreshNow
    /\ fl_calls' = fl_calls - 1
    /\ UNCHANGED <<besideList, fs_params, ed_pc, ed_filters>>

\* __len__, __getitem__ or get_keys is called: a refresh when one is needed
FileListRead ==
    /\ ed_pc = "calls"
    /\ fl_calls > 0
    /\ IF ed_needs_refresh THEN RefreshNow
       ELSE UNCHANGED <<ed_downloaders, ed_raw_data, ed_results,
                        ed_filtered_data, ed_needs_refresh, fl_is_loaded>>
    /\ fl_calls' = fl_calls - 1
    /\ UNCHANGED <<besideList, fs_params, ed_pc, ed_filters>>

\* a downloader writes its manifest while the editor runs
ManifestChange ==
    /\ ed_pc = "calls"
    /\ fl_calls > 0
    /\ \E s \in Range(argv.downloaders), manifest \in ListManifests :
          /\ fs_params[s] # manifest
          /\ fs_params' = [fs_params EXCEPT ![s] = manifest]
    /\ fl_calls' = fl_calls - 1
    /\ UNCHANGED <<besideList, edVars, fl_is_loaded>>

----------------------------------------------------------------------------
(* A save of a filter list followed by a load *)

\* load_filters_from_json(save_filters_to_json(filters))
SaveThenLoad ==
    /\ rt_pc = "call"
    /\ rt_out' = load_filters_from_json(save_filters_to_json(rt_in))
    /\ rt_pc' = "returned"
    /\ UNCHANGED <<besideRt, rt_in>>

----------------------------------------------------------------------------
(* The replace table of the FilterBrowser *)

\* load_filter_data at startup
LoadFilterData ==
    /\ rk_pc = "start"
    /\ rk_table' = load_filter_data(rk_config)
    /\ rk_pc' = "shown"
    /\ UNCHANGED <<besideRk, rk_config, rk_last>>

\* what an action makes of the selected row: nothing unless its key holds
\* a "|", else the two halves of the key
SelectedPattern(cursor_row) ==
    LET row_key == rk_table[cursor_row].key
    IN  IF FindFrom(row_key, "|", 1) = 0 THEN <<>> ELSE SplitBar(row_key)

\* action_delete_replace_pattern on row cursor_row, then the reload of
\* _remove_replace_pattern
DeleteReplacePattern ==
    /\ rk_pc = "shown"
    /\ \E cursor_row \in DOMAIN rk_table :
          LET selected == SelectedPattern(cursor_row)
              config == IF selected = <<>> THEN rk_config
                        ELSE remove_replace_pattern(rk_config, selected[1],
                                                    selected[2])
          IN  /\ rk_config' = config
              /\ rk_table' = load_filter_data(config)
              /\ rk_last' = [op |-> "delete", row |-> rk_table[cursor_row],
                             before |-> rk_config, result |-> <<>>]
    /\ rk_pc' = "changed"
    /\ UNCHANGED besideRk

\* the pairs the user may type in the ReplaceEditModal
EditResults == {<<<<"x">>, <<"y">>>>, <<<<>>, <<"y">>>>}

\* action_edit_replace_pattern on row cursor_row; the modal returns result
EditReplacePattern ==
    /\ rk_pc = "shown"
    /\ \E cursor_row \in DOMAIN rk_table, result \in EditResults :
          LET selected == SelectedPattern(cursor_row)
              config == IF selected = <<>> THEN rk_config
                        ELSE edit_replace_pattern(rk_config, selected[1],
                                                  selected[2], result)
          IN  /\ rk_config' = config
              /\ rk_table' = load_filter_data(config)
              /\ rk_last' = [op |-> "edit", row |-> rk_table[cursor_row],
                             before |-> rk_config, result |-> result]
    /\ rk_pc' = "changed"
    /\ UNCHANGED besideRk

Next ==
    \/ LoadFilters
    \/ ParseArgs
    \/ ParseParams
    \/ ResolveRule
    \/ DumpJson
    \/ EmitPreamble
    \/ EmitRule
    \/ EmitDirs
    \/ EdLoadAllData
    \/ EdRefresh
    \/ Rerun
    \/ FiltersChainApply
    \/ WatchFile
    \/ UnwatchFile
    \/ ModifyFile
    \/ CheckChanges
    \/ CheckNextFile
    \/ CheckCallback
    \/ ProviderChange
    \/ AdjustRowCount
    \/ UpdateRange
    \/ GetOffsets
    \/ TriggerUpdate
    \/ BackgroundUpdate
    \/ TabLoadData
    \/ TabSetFilters
    \/ TabAddFilter
    \/ TabRemoveFilterAt
    \/ TabUpdateFilterAt
    \/ SaveOpen
    \/ SaveWrite
    \/ SaveRename
    \/ ReadFilters
    \/ FileListLoad
    \/ FileListSetFilters
    \/ FileListRefresh
    \/ FileListRead
    \/ ManifestChange
    \/ SaveThenLoad
    \/ LoadFilterData
    \/ DeleteReplacePattern
    \/ EditReplacePattern

Spec == Init /\ [][Next]_vars

SpecFilter == InitFilter /\ [][Next]_vars

SpecManifest == InitManifest /\ [][Next]_vars

SpecRender == InitRender /\ [][Next]_vars

SpecEditor == InitEditorFiles /\ [][Next]_vars

SpecChain == InitChain /\ [][Next]_vars

SpecRerun == InitRerun /\ [][Next]_vars

SpecWatch == InitWatch /\ [][Next]_vars

SpecReentrant == InitReentrant /\ [][Next]_vars

SpecTable == InitTableRuns /\ [][Next]_vars

\* the event loop runs every task that is ready: asyncio keeps the ready
\* callbacks in a queue and runs them in turn
SpecTableFair == SpecTable /\ WF_vars(BackgroundUpdate)

SpecTab == InitTabRuns /\ [][Next]_vars

SpecSave == InitSaveRuns /\ [][Next]_vars

SpecList == InitListRuns /\ [][Next]_vars

SpecRoundTrip == InitRoundTrips /\ [][Next]_vars

SpecRowKeys == InitRowKeyRuns /\ [][Next]_vars

----------------------------------------------------------------------------
(* Properties *)

\* generate_targets_dict has returned
Resolved == pc \in {"emit", "raised", "done"}

\* main has ended, by returning or by an exception
Ended == pc \in {"raised", "done"}

RECURSIVE SumLen(_)
SumLen(l) == IF l = <<>> THEN 0 ELSE Len(Head(l)) + SumLen(Tail(l))

\* number of elements of l that satisfy Test
CountIf(l, Test(_)) == Cardinality({i \in 1..Len(l) : Test(l[i])})

NoDuplicates(l) == \A i, j \in 1..Len(l) : l[i] = l[j] => i = j

FirstIndex(l, x) == FindFrom(l, x, 1)

\* the names walk through the downloaders list without going back
RECURSIVE FollowsList(_, _, _)
FollowsList(names, downloaders, from) ==
    IF names = <<>> THEN TRUE
    ELSE LET q == FindFrom(downloaders, Head(names), from)
         IN  q # 0 /\ FollowsList(Tail(names), downloaders, q)

CandidateSources(i) == [k \in 1..Len(targets[i].val) |-> targets[i].val[k][3]]

\* C1: under every key the candidates are in the order of the downloaders
\* list: the sources of the candidates walk through the list front to back,
\* and when the list names no source twice a candidate of a source named
\* earlier precedes every candidate of a source named later.
C1_SourceOrder ==
    \A i \in 1..Len(targets) :
        LET names == CandidateSources(i) IN
        /\ FollowsList(names, argv.downloaders, 1)
        /\ NoDuplicates(argv.downloaders) =>
              \A k, m \in 1..Len(names) :
                  FirstIndex(argv.downloaders, names[k])
                      < FirstIndex(argv.downloaders, names[m]) => k < m

\* A and B list the same two paths in opposite line order and every key has
\* A's candidate before B's
C1_Witness ==
    /\ Resolved
    /\ argv.downloaders = <<"A", "B">>
    /\ Len(fs_params["A"].lines) = 2
    /\ fs_params["A"].lines[1] # fs_params["A"].lines[2]
    /\ fs_params["B"].lines
          = <<fs_params["A"].lines[2], fs_params["A"].lines[1]>>
    /\ Len(targets) = 2
    /\ \A i \in 1..2 : CandidateSources(i) = <<"A", "B">>

\* the path of a record after every replace filter
Rewritten(target) ==
    ApplyReplaceFilters(REPLACE_FILTERS, 1, PathOf(target), <<>>).path

MatchesIgnore(path) ==
    \E k \in 1..Len(IGNORE_FILTERS) :
        Compiles(IGNORE_FILTERS[k]) /\ ReSearch(IGNORE_FILTERS[k], path)

IgnoredRecord(target) == MatchesIgnore(Rewritten(target))

\* the records of every requested source, one list per list position
RequestedRecords ==
    [i \in 1..Len(argv.downloaders) |->
        parse_params_file(ParamsFile(argv.downloaders[i]), argv.downloaders[i])]

\* C2: a record whose rewritten path matches an ignore pattern is in no
\* entry of the targets, of the directory dependencies or of the JSON dump.
C2_DroppedNowhere ==
    /\ \A i \in 1..Len(targets) : \A k \in 1..Len(targets[i].val) :
          ~IgnoredRecord(targets[i].val[k][1])
    /\ \A i \in 1..Len(dir_deps) : \A k \in 1..Len(dir_deps[i].val) :
          ~IgnoredRecord(dir_deps[i].val[k])
    /\ \A j \in 1..Len(json_out) : \A i \in 1..Len(json_out[j].targets) :
          \A k \in 1..Len(json_out[j].targets[i].val) :
              ~IgnoredRecord(json_out[j].targets[i].val[k].target)

\* a run that dropped a record and kept another one, dumped or rendered
C2_Witness ==
    /\ Ended
    /\ \E i \in 1..Len(RequestedRecords) : \E k \in 1..Len(RequestedRecords[i]) :
          IgnoredRecord(RequestedRecords[i][k][1])
    /\ targets # <<>>
    /\ (json_out # <<>> \/ dir_deps # <<>>)

\* every requested record with the key it resolves to, "" when dropped
RECURSIVE Flatten(_)
Flatten(l) == IF l = <<>> THEN <<>> ELSE Head(l) \o Flatten(Tail(l))

ResolvedRecords ==
    LET all == Flatten(RequestedRecords) IN
    [k \in 1..Len(all) |->
        [source |-> all[k][3],
         key |-> normalize_path(all[k][3], PathOf(all[k][1])).path]]

CandidatesFor(i, source) ==
    Cardinality({k \in 1..Len(targets[i].val) : targets[i].val[k][3] = source})

\* candidates and records agree in number, in total and by key and source
CountsAgree ==
    LET recs == ResolvedRecords IN
    /\ SumLen([i \in 1..Len(targets) |-> targets[i].val])
          = Cardinality({k \in 1..Len(recs) : recs[k].key # <<>>})
    /\ \A i \in 1..Len(targets) : \A s \in Sources :
          CandidatesFor(i, s)
             = Cardinality({k \in 1..Len(recs) :
                               recs[k].source = s /\ recs[k].key = targets[i].key})

\* C6: no deduplication: once resolved, the candidates are as many as the
\* records that were not dropped, and under every key every source has as
\* many candidates as it has records that normalize to that key.
C6_NoDedup == Resolved => CountsAgree

\* a manifest with the same line twice gives two candidates of one source
C6_Witness ==
    /\ Resolved
    /\ argv.downloaders = <<"A">>
    /\ Len(fs_params["A"].lines) = 2
    /\ fs_params["A"].lines[1] = fs_params["A"].lines[2]
    /\ Len(targets) = 1
    /\ CandidateSources(1) = <<"A", "A">>

\* the guard of one of the steps before the output loop holds: the run has
\* neither raised nor stopped
Proceeds ==
    \/ pc = "import"
    \/ pc = "main"
    \/ pc = "generate" /\ di \in 1..Len(argv.downloaders)
    \/ pc = "generate" /\ di = Len(argv.downloaders) + 1
    \/ pc = "rules" /\ ri \in 1..Len(rules)

\* C8: a missing manifest gives no rules and a missing, unreadable or
\* corrupt filters.json gives empty filter lists; nothing before the
\* output loop raises or stops, and the records of the other sources are
\* resolved as usual.
C8_AbsenceTolerated ==
    /\ (pc # "import" /\ fs_filters.state # "ok")
          => IGNORE_FILTERS = <<>> /\ REPLACE_FILTERS = <<>>
    /\ (pc = "generate" /\ di > 1 /\ ~fs_params[argv.downloaders[di - 1]].exists)
          => rules = <<>>
    /\ pc = "raised" => ti >= 1
    /\ pc \in {"import", "main", "generate", "rules"} => Proceeds
    /\ (Resolved /\ fs_filters.state # "ok")
          => SumLen([i \in 1..Len(targets) |-> targets[i].val])
                = SumLen(RequestedRecords)
    /\ (Resolved /\ \E s \in Range(argv.downloaders) : ~fs_params[s].exists)
          => LET recs == ResolvedRecords IN
             \A s \in Range(argv.downloaders) :
                SumLen([i \in 1..Len(targets) |->
                           SelectSeq(CandidateSources(i), LAMBDA n : n = s)])
                   = Cardinality({k \in 1..Len(recs) :
                                     recs[k].source = s /\ recs[k].key # <<>>})

\* A's manifest is missing, filters.json is corrupt, B's records are resolved
C8_Witness ==
    /\ Resolved
    /\ argv.downloaders = <<"A", "B">>
    /\ ~fs_params["A"].exists
    /\ fs_filters.state = "corrupt"
    /\ Len(fs_params["B"].lines) = 2
    /\ SumLen([i \in 1..Len(targets) |-> targets[i].val]) = 2

\* the lines of b at positions j+1 .. j+Len(a) are a
InfixAt(a, b, j) ==
    /\ j + Len(a) <= Len(b)
    /\ \A k \in 1..Len(a) : b[j + k] = a[k]

\* the command lines of a rule: all but the last end in "||"
CommandLines(sources) ==
    [k \in 1..Len(sources) |->
        IF k < Len(sources) THEN <<"\t">> \o sources[k][2] \o <<" || \\">>
        ELSE <<"\t">> \o sources[k][2]]

HeaderLine(sources) ==
    EscapeDollar(sources[1][1]) \o <<": scripts/filters.json">>

\* C9: in Makefile mode every target is rendered with the commands of its
\* candidates in candidate order, one line each, all but the last followed
\* by "||" (a single candidate: one bare command line).
C9_CommandsRendered ==
    (Ended /\ ~argv.dump) =>
        \A i \in 1..Len(targets) :
            \E j \in 0..Len(out) : InfixAt(CommandLines(targets[i].val), out, j)

\* C10: when main has ended, a target whose rule header was printed has its
\* whole rule printed: header, directory-creation step, every command.
C10_NoPartialRule ==
    Ended =>
        \A i \in 1..Len(targets) :
            (\E j \in 1..Len(out) : out[j] = HeaderLine(targets[i].val)) =>
                \E j \in 0..Len(out), m \in 0..Len(out) :
                    /\ j + 2 <= m
                    /\ InfixAt(<<HeaderLine(targets[i].val),
                                 <<"\t@mkdir -p $(dir $@)">>>>, out, j)
                    /\ InfixAt(CommandLines(targets[i].val), out, m)

IsReplace(entry) == entry[1] = "replace"

IsIgnore(entry) == entry[1] = "ignore"

\* indices of the ignore patterns that match path
MatchingIgnores(path) ==
    {k \in 1..Len(IGNORE_FILTERS) :
        Compiles(IGNORE_FILTERS[k]) /\ ReSearch(IGNORE_FILTERS[k], path)}

Minimum(S) == CHOOSE k \in S : \A m \in S : k <= m

\* path after the first k replace filters, each applied to the result of
\* the one before
RECURSIVE Cascade(_, _, _)
Cascade(filters, k, path) ==
    IF k = 0 THEN path
    ELSE LET prev == Cascade(filters, k - 1, path)
         IN  IF Compiles(filters[k][1])
             THEN ReSub(filters[k][1], filters[k][2], prev) ELSE prev

\* the replace filters among the first k that changed the string, in order
RECURSIVE Firings(_, _, _)
Firings(filters, k, path) ==
    IF k = 0 THEN <<>>
    ELSE Firings(filters, k - 1, path) \o
         (IF Cascade(filters, k, path) # Cascade(filters, k - 1, path)
          THEN << <<"replace", filters[k][1], filters[k][2]>> >> ELSE <<>>)

\* C3: the ignore patterns are evaluated on the path left by all the replace
\* filters: when none matches it, normalize_path returns that path and the
\* trace has no ignore entry; when some match it, the result is the drop
\* ("") and the trace ends with the entry of the first matching pattern, the
\* only ignore entry.
C3_IgnoreAfterReplace ==
    loc.bound =>
        LET final == Cascade(REPLACE_FILTERS, Len(REPLACE_FILTERS), loc.path)
            hits == MatchingIgnores(final)
            trace == loc.applied_filters
        IN  IF hits = {}
            THEN /\ loc.norm_key = final
                 /\ SelectSeq(trace, IsIgnore) = <<>>
            ELSE /\ loc.norm_key = <<>>
                 /\ SelectSeq(trace, IsIgnore)
                       = << <<"ignore", IGNORE_FILTERS[Minimum(hits)]>> >>
                 /\ IsIgnore(trace[Len(trace)])

\* "a" is rewritten to "b" and the patterns are "a", "b": the first one
\* matches the path as given only, the drop is on "b"
C3_Witness ==
    /\ loc.bound
    /\ loc.path = <<"a">>
    /\ REPLACE_FILTERS = << <<<<"a">>, <<"b">>>> >>
    /\ IGNORE_FILTERS = << <<"a">>, <<"b">> >>
    /\ loc.norm_key = <<>>
    /\ loc.applied_filters = << <<"replace", <<"a">>, <<"b">>>>,
                                <<"ignore", <<"b">>>> >>

\* C4: replace filters cascade in list order and the replace entries of the
\* trace are exactly the filters that changed the string, in that order; a
\* path that is not dropped is the result of the whole cascade.
C4_ReplaceCascade ==
    loc.bound =>
        /\ SelectSeq(loc.applied_filters, IsReplace)
              = Firings(REPLACE_FILTERS, Len(REPLACE_FILTERS), loc.path)
        /\ SelectSeq(loc.applied_filters, IsIgnore) = <<>>
              => loc.norm_key
                    = Cascade(REPLACE_FILTERS, Len(REPLACE_FILTERS), loc.path)

\* a.jpg through (a -> b), (b -> c) is c.jpg, both in the trace
C4_Witness ==
    /\ loc.bound
    /\ loc.path = <<"a", ".", "j", "p", "g">>
    /\ REPLACE_FILTERS = << <<<<"a">>, <<"b">>>>, <<<<"b">>, <<"c">>>> >>
    /\ loc.norm_key = <<"c", ".", "j", "p", "g">>
    /\ loc.applied_filters = << <<"replace", <<"a">>, <<"b">>>>,
                                <<"replace", <<"b">>, <<"c">>>> >>

HasSpace(line) == FindFrom(Strip(line), " ", 1) # 0

\* the argument string of a command
ArgsOf(command) == Drop(command, 3)

\* C7: parse_params_file gives one rule per line that, without the blanks
\* around it, holds a space, in file order: the target is data/<filename>
\* where filename has no space, and filename, one space and the argument
\* string make up the line; lines without a separating space give nothing.
C7_OneRulePerLine ==
    (pc = "rules" \/ (pc = "generate" /\ di > 1)) =>
        LET lines == fs_params[argv.downloaders[IF pc = "rules" THEN di
                                                ELSE di - 1]].lines
            split == SelectSeq(lines, HasSpace)
        IN  /\ Len(rules) = Len(split)
            /\ \A k \in 1..Len(rules) :
                  LET filename == PathOf(rules[k][1])
                      args == ArgsOf(rules[k][2])
                  IN  /\ rules[k][1] = DataPrefix \o filename
                      /\ FindFrom(filename, " ", 1) = 0
                      /\ filename \o <<" ">> \o args = Strip(split[k])
                      /\ rules[k][2] = Command(rules[k][3], args)

\* a line without a space, then one with two spaces and more arguments
C7_Witness ==
    /\ pc = "rules"
    /\ fs_params["A"].lines
          = << <<"b">>, <<"a", " ", " ", "x", " ", "y">> >>
    /\ Len(rules) = 1
    /\ rules[1][1] = <<"d", "a", "t", "a", "/", "a">>
    /\ ArgsOf(rules[1][2]) = <<" ", "x", " ", "y">>

CompilesFind(pair) == Compiles(pair[1])

IsCompiled(f) == f.type = "chain" \/ f.compiled

\* C5: a filter whose pattern does not compile is inert: normalize_path
\* gives the path and the trace it gives without these filters, the
\* editor's result is the one of the filter list without them, their apply
\* returns the path as it is, and filtering never raises.
C5_InvalidInert ==
    /\ loc.bound =>
          NormalizeWith(SelectSeq(REPLACE_FILTERS, CompilesFind),
                        SelectSeq(IGNORE_FILTERS, Compiles), loc.path)
             = [path |-> loc.norm_key, trace |-> loc.applied_filters]
    /\ pc = "raised" => ti >= 1
    /\ (ed_pc = "loaded" /\ ~ed_needs_refresh) =>
          ed_results
             = apply_filters(ed_raw_data, SelectSeq(ed_filters, IsCompiled))
    /\ \A k \in 1..Len(ed_filters) : \A i \in 1..Len(ed_raw_data) :
          ~IsCompiled(ed_filters[k]) =>
              FilterApply(ed_filters[k], ed_raw_data[i].key)
                 = [stop |-> FALSE, path |-> ed_raw_data[i].key]

\* "(" comes first in both lists: "a" is still rewritten to "b" and then
\* dropped on "b"
C5_Witness ==
    /\ loc.bound
    /\ loc.path = <<"a">>
    /\ REPLACE_FILTERS = << <<<<"(">>, <<"c">>>>, <<<<"a">>, <<"b">>>> >>
    /\ IGNORE_FILTERS = << <<"(">>, <<"b">> >>
    /\ loc.applied_filters = << <<"replace", <<"a">>, <<"b">>>>,
                                <<"ignore", <<"b">>>> >>

----------------------------------------------------------------------------
(* The commands and the rules of the Makefile *)

\* what make runs for a command of the rule of target: $@ is the target
MakeExpands(command, target) ==
    <<command[1], command[2], "/download.sh ">> \o target \o <<" ">>
        \o ArgsOf(command)

\* the script of the candidate's source on the candidate's own record path
OwnCommand(candidate) ==
    <<"./scripts/", candidate[3], "/download.sh ">> \o candidate[1]
        \o <<" ">> \o ArgsOf(candidate[2])

\* the candidate is a line of the manifest of its source
FromManifest(candidate) ==
    \E k \in 1..Len(fs_params[candidate[3]].lines) :
        Strip(fs_params[candidate[3]].lines[k])
           = PathOf(candidate[1]) \o <<" ">> \o ArgsOf(candidate[2])

\* the target of the rule of the i-th key, main line 154
RuleTarget(i) == targets[i].val[1][1]

\* C11: the command of every candidate, as make runs it in the rule of its
\* key, is the download script of the candidate's source on the candidate's
\* own record path with its own argument string, for the second and later
\* candidates as well.
C11_OwnCommand ==
    Resolved =>
        \A i \in 1..Len(targets) : \A k \in 1..Len(targets[i].val) :
            LET candidate == targets[i].val[k] IN
            /\ FromManifest(candidate)
            /\ MakeExpands(candidate[2], RuleTarget(i)) = OwnCommand(candidate)

\* the run printed a Makefile, or raised while printing it
MakefileRun == Ended /\ ~argv.dump

\* the parent directories of the rule targets
ParentDirs == {Dirname(RuleTarget(i)) : i \in 1..Len(targets)}

\* the rule targets under directory, in the order of their normalized paths
DepsOf(directory) ==
    LET Under(key) ==
            Dirname(RuleTarget(KeyIndex(targets, key, 1))) = directory
        keys == SortStrings(SelectSeq([i \in 1..Len(targets) |-> targets[i].key],
                                      Under))
    IN  [k \in 1..Len(keys) |-> RuleTarget(KeyIndex(targets, keys[k], 1))]

\* line is the head of an aggregate rule: a name, ": " and dependencies
IsAggregate(line) == \E k \in 1..Len(line) : line[k] = ": "

AggregateHead(directory) ==
    EscapeDollar(directory) \o <<": ">>
        \o Join(EscapeAll(DepsOf(directory)), <<" ">>)

\* C12: when the Makefile has been printed there is one aggregate rule for
\* every parent directory of a rule target and no other: its dependencies
\* are the targets under that directory in the order of their normalized
\* paths, and the line after it reports their number.
C12_DirectoryRules ==
    MakefileRun =>
        /\ Cardinality({j \in 1..Len(out) : IsAggregate(out[j])})
              = Cardinality(ParentDirs)
        /\ \A directory \in ParentDirs :
              \E j \in 1..(Len(out) - 1) :
                  /\ out[j] = AggregateHead(directory)
                  /\ Len(out[j + 1]) >= 2
                  /\ out[j + 1][2] = ToString(Len(DepsOf(directory)))

\* name is one of the names listed on line after position from
ListedIn(name, line, from) ==
    \E k \in from..Len(line) :
        /\ line[k] \in {": ", ".PHONY: ", " "}
        /\ InfixAt(name, line, k)
        /\ k + Len(name) < Len(line) => line[k + Len(name) + 1] = " "

\* directory is recorded by main: lines 159-162
Recorded(directory) == directory # <<>> /\ directory # <<"d", "a", "t", "a">>

\* the line of the aggregate rule of directory
IsAggregateOf(line, directory) ==
    /\ Len(line) > Len(directory)
    /\ Take(line, Len(directory) + 1) = directory \o <<": ">>

\* the action line of the aggregate rule of directory
IsActionOf(line, directory) ==
    /\ Len(line) = Len(directory) + 4
    /\ line[3] = " files to "
    /\ InfixAt(directory, line, 3)

\* C13: when the Makefile has been printed every rule target is declared
\* with each "$" doubled, and the same doubled form is a dependency of the
\* aggregate rule of its directory, whose name is doubled in the .PHONY
\* list, in the head of the aggregate rule and in its action line.
C13_DollarDoubled ==
    MakefileRun =>
        \A i \in 1..Len(targets) :
            LET target == EscapeDollar(RuleTarget(i))
                directory == EscapeDollar(Dirname(RuleTarget(i)))
            IN  /\ \E j \in 1..Len(out) :
                      out[j] = target \o <<": scripts/filters.json">>
                /\ Recorded(Dirname(RuleTarget(i))) =>
                      /\ \E j \in 1..Len(out) :
                            /\ IsAggregateOf(out[j], directory)
                            /\ ListedIn(target, out[j], Len(directory) + 1)
                      /\ \E j \in 1..Len(out) :
                            /\ out[j] # <<>>
                            /\ out[j][1] = ".PHONY: "
                            /\ ListedIn(directory, out[j], 1)
                      /\ \E j \in 1..Len(out) : IsActionOf(out[j], directory)

\* the keys of the records that are not dropped, each at its first place
RECURSIVE FirstResolved(_, _)
FirstResolved(recs, seen) ==
    IF recs = <<>> THEN seen
    ELSE FirstResolved(Tail(recs),
             IF Head(recs).key = <<>> \/ FindFrom(seen, Head(recs).key, 1) # 0
             THEN seen ELSE Append(seen, Head(recs).key))

IsTargetHead(line) ==
    line # <<>> /\ line[Len(line)] = ": scripts/filters.json"

\* the directories of the aggregate rules, in the order of their lines
PrintedDirs ==
    LET heads == SelectSeq(out, IsAggregate)
    IN  [k \in 1..Len(heads) |->
            Take(heads[k], FindFrom(heads[k], ": ", 1) - 1)]

\* C14: when the Makefile has been printed the target rules are those of
\* the keys in the order in which resolution first met them, every
\* aggregate rule comes after the last of them, and the aggregate rules are
\* in ascending order of the directory name.
C14_EmissionOrder ==
    MakefileRun =>
        /\ SelectSeq(out, IsTargetHead)
              = [k \in 1..Len(FirstResolved(ResolvedRecords, <<>>)) |->
                    EscapeDollar(RuleTarget(
                        KeyIndex(targets,
                                 FirstResolved(ResolvedRecords, <<>>)[k], 1)))
                        \o <<": scripts/filters.json">>]
        /\ \A j, k \in 1..Len(out) :
              IsTargetHead(out[j]) /\ IsAggregate(out[k]) => j < k
        /\ \A j, k \in 1..Len(PrintedDirs) :
              j < k => StrLess(PrintedDirs[j], PrintedDirs[k])

\* the rule whose head is line j of out ends before the next empty line
RuleEnd(j) ==
    IF \E k \in (j + 1)..Len(out) : out[k] = <<>>
    THEN Minimum({k \in (j + 1)..Len(out) : out[k] = <<>>})
    ELSE Len(out) + 1

IsCommand(line) ==
    Len(line) >= 2 /\ line[1] = "\t" /\ line[2] = "./scripts/"

IsSourceList(line) ==
    line # <<>> /\ line[1] \in {"# Source: ", "# Sources: "}

CommandCount(j) ==
    Cardinality({k \in (j + 1)..(RuleEnd(j) - 1) : IsCommand(out[k])})

\* the names listed in the comment of the rule, separated by ", "
NameCount(j) ==
    LET at == {k \in (j + 1)..(RuleEnd(j) - 1) : IsSourceList(out[k])}
    IN  IF at = {} THEN 0 ELSE Len(out[Minimum(at)]) \div 2

\* C15: after generate_targets_dict no key is empty and no key is without
\* candidates, the records rewritten to the empty string have no candidate
\* (as the ignored ones), and every rule that is printed has as many
\* commands and as many listed source names as its key has candidates.
C15_NeverEmpty ==
    /\ Resolved =>
          /\ \A i \in 1..Len(targets) :
                targets[i].key # <<>> /\ targets[i].val # <<>>
          /\ SumLen([i \in 1..Len(targets) |-> targets[i].val])
                = Cardinality({k \in 1..Len(ResolvedRecords) :
                                  ResolvedRecords[k].key # <<>>})
    /\ \A i \in 1..Len(targets) : \A j \in 1..Len(out) :
          out[j] = HeaderLine(targets[i].val) =>
              /\ CommandCount(j) = Len(targets[i].val)
              /\ NameCount(j) = Len(targets[i].val)

----------------------------------------------------------------------------
(* The two readers of filters.json *)

\* the find/replacement pairs of filters.json, under either key
ConfiguredPairs == Range(fs_filters.replace) \cup Range(fs_filters.edit)

\* C16: the pairs stored under "replace" and the pairs stored under "edit"
\* are all loaded by build_makefile.py and by the editor, and a filters.json
\* written by the editor (pairs under "edit" only) is applied by
\* normalize_path as the list of its pairs.
C16_BothKeysRead ==
    /\ (pc \notin {"off", "import"} /\ fs_filters.state = "ok") =>
          \A pair \in ConfiguredPairs :
              \E k \in 1..Len(REPLACE_FILTERS) : REPLACE_FILTERS[k] = pair
    /\ (ed_pc = "loaded" /\ fs_filters.state = "ok") =>
          \A pair \in ConfiguredPairs :
              \E k \in 1..Len(ed_filters) :
                  ed_filters[k] = EditFilter(pair[1], pair[2])
    /\ (loc.bound /\ fs_filters.state = "ok" /\ fs_filters.replace = <<>>) =>
          NormalizeWith(fs_filters.edit, fs_filters.ignore, loc.path)
             = [path |-> loc.norm_key, trace |-> loc.applied_filters]

\* the sources of the entries listed under the i-th filtered path
ResultSources(i) ==
    [k \in 1..Len(ed_results[i].val) |-> ed_results[i].val[k].source]

\* C20: under every filtered path of the editor's result the entries are in
\* the order in which their sources were loaded: an entry of a source loaded
\* later never precedes an entry of a source loaded earlier.
C20_LoadOrder ==
    ed_pc = "loaded" =>
        \A i \in 1..Len(ed_results) :
            \A k, m \in 1..Len(ResultSources(i)) :
                k < m =>
                    FirstIndex(ed_downloaders, ResultSources(i)[k])
                        <= FirstIndex(ed_downloaders, ResultSources(i)[m])

\* the filtered paths under which the editor lists the raw path
EditorOutcome(path) ==
    {ed_results[j].key : j \in {j \in 1..Len(ed_results) :
        \E k \in 1..Len(ed_results[j].val) :
            ed_results[j].val[k].original_path = path}}

\* what normalize_path gives for the path with the filters of filters.json:
\* no path when an ignore pattern fired, else the rewritten path
MakeOutcome(path) ==
    LET n == NormalizeWith(fs_filters.replace, fs_filters.ignore, path)
    IN  IF SelectSeq(n.trace, IsIgnore) # <<>> THEN {} ELSE {n.path}

\* C19: with the same ignore patterns and the same pairs in filters.json,
\* the editor's apply_filters with the filters of load_filters_from_json
\* gives every raw path the outcome of normalize_path: the same rewritten
\* path, or dropped.
C19_EditorAsCore ==
    (/\ ed_pc = "loaded"
     /\ ~ed_needs_refresh
     /\ fs_filters.state = "ok"
     /\ fs_filters.edit = fs_filters.replace) =>
        \A i \in 1..Len(ed_raw_data) :
            EditorOutcome(ed_raw_data[i].key) = MakeOutcome(ed_raw_data[i].key)

----------------------------------------------------------------------------
(* FiltersChain.apply *)

IsIgnoreFilter(f) == f.type = "ignore"

IsRewriteFilter(f) == f.type # "ignore"

\* the two-phase order: the edit filters of the list (and its chains, in the
\* same way) on the path, then the ignore filters on what they leave
RECURSIVE TwoPhase(_, _)
RECURSIVE RewritePhase(_, _, _)
TwoPhase(filters, path) ==
    LET rewritten == RewritePhase(SelectSeq(filters, IsRewriteFilter), 1, path)
    IN  IF rewritten.stop THEN rewritten
        ELSE ChainApply(SelectSeq(filters, IsIgnoreFilter), 1, rewritten.path)

RewritePhase(filters, k, current) ==
    IF k > Len(filters) THEN [stop |-> FALSE, path |-> current]
    ELSE LET r == IF filters[k].type = "chain"
                  THEN TwoPhase(filters[k].filters, current)
                  ELSE FilterApply(filters[k], current)
         IN  IF r.stop THEN r ELSE RewritePhase(filters, k + 1, r.path)

\* both dropped, or both kept with the same path
SameOutcome(r, t) == r.stop = t.stop /\ (~r.stop => r.path = t.path)

\* C17: FiltersChain.apply gives the outcome of the two-phase order on its
\* nested list: the nested edit filters first, then the nested ignore
\* filters on the rewritten path, whatever their order in the list.
C17_ChainTwoPhase ==
    fn_pc = "returned" =>
        SameOutcome(fn_out, TwoPhase(fn_in.filters, fn_in.path))

----------------------------------------------------------------------------
(* Runs of the script on unchanged files *)

----------------------------------------------------------------------------
(* The FileWatcher *)

\* the names of the callbacks the current pass invoked for file_path
InvokedFor(file_path) ==
    LET calls == SelectSeq(w_invoked, LAMBDA c : c.path = file_path)
    IN  [k \in 1..Len(calls) |-> calls[k].name]

\* the application only registers callbacks that leave the watcher alone,
\* and never unwatches
PlainApplication ==
    /\ w_pc # "off"
    /\ "unwatch_file" \notin w_app.ops
    /\ w_app.callbacks \subseteq PlainCallbacks

\* C21: after any sequence of watch_file calls, writes and check_changes
\* calls, the callbacks of a watched file that exists are invoked by a check
\* exactly when the file was written since it was last examined (or was
\* never examined), each registered callback once; otherwise none is invoked
C21_FiresOnChange ==
    (PlainApplication /\ w_seen.path # "none") =>
        /\ w_seen.fired = w_seen.changed
        /\ w_pc \in {"for", "idle"} =>
              InvokedFor(w_seen.path) =
                 IF w_seen.changed
                 THEN [k \in 1..Len(w_seen.registered) |-> w_seen.registered[k].name]
                 ELSE <<>>

\* C29: a callback may call watch_file or unwatch_file on its watcher: no
\* exception escapes check_changes, and after the pass the files with a
\* recorded mtime are the watched files, each with a callback
C29_ReentrantSafe ==
    /\ w_pc # "raised"
    /\ w_pc = "idle" =>
          /\ DOMAIN last_mtimes = WatchedPaths(watched_files)
          /\ \A e \in DOMAIN watched_files :
                watched_files[e].live => watched_files[e].callbacks # <<>>

----------------------------------------------------------------------------
(* The VirtualDataTable *)

\* the rows update_range(start, stop) is to bring up to date
RangeOf(call) ==
    {row_idx \in 0..(Len(provider.rows) - 1) :
        Max(call.start, 0) <= row_idx /\ row_idx < call.stop}

\* row row_idx is displayed, with the provider's row
ShowsCurrent(row_idx) ==
    /\ row_idx < Len(t_rows)
    /\ row_idx < Len(provider.rows)
    /\ t_rows[row_idx + 1].data = provider.rows[row_idx + 1]

\* C22: after update_range(start, stop) every row of the range has the
\* provider's version recorded and shows the provider's row, no row whose
\* recorded version was the provider's is fetched again, and at any time a
\* displayed row recorded at the provider's version shows the provider's row
C22_RangeFresh ==
    [][ /\ t_call' # t_call =>
              /\ ~t_call'.raised
              /\ \A row_idx \in RangeOf(t_call)' :
                    /\ VersionOf(row_versions', row_idx) = provider'.version
                    /\ ShowsCurrent(row_idx)'
              /\ \A row_idx \in t_call'.fetched :
                    VersionOf(row_versions, row_idx) # provider.version
        /\ \A row_idx \in 0..(Len(t_rows') - 1) :
              VersionOf(row_versions', row_idx) = provider'.version
                 => ShowsCurrent(row_idx)' ]_vars

\* a task that is started, not finished and not cancelled
Active(task) == ~Done(task) /\ ~task.cancel

ActiveTasks == {n \in DOMAIN t_tasks : Active(t_tasks[n])}

\* C23: trigger_update starts a task only when the provider's version is
\* not the version of the trigger before, and cancels the unfinished task of
\* that trigger: at most one task is active
C23_OneActiveTask ==
    /\ Cardinality(ActiveTasks) <= 1
    /\ \A n \in 1..(Len(t_tasks) - 1) :
          t_tasks[n].version # t_tasks[n + 1].version

\* a task was asked to cancel at its await and has not run since, while the
\* task of the next trigger is active
C23_Witness ==
    /\ \E n \in DOMAIN t_tasks :
          /\ t_tasks[n].cancel
          /\ t_tasks[n].state = "suspended"
    /\ Cardinality(ActiveTasks) = 1

\* trigger_update was called at the provider's version
Triggered == t_pc = "mounted" /\ t_last_version = provider.version

\* the provider changes no more
Final == provider.changes = <<>>

\* the update has ended, the table has the provider's size and every row
\* is recorded at the provider's version
Fresh ==
    /\ t_update_task # 0
    /\ t_tasks[t_update_task].state = "done"
    /\ Len(t_rows) = Len(provider.rows)
    /\ \A row_idx \in 0..(Len(t_rows) - 1) :
          VersionOf(row_versions, row_idx) = provider.version

\* C24: once trigger_update was called after the provider's last change,
\* the background update eventually ends with the table at the provider's
\* size and every row recorded at the provider's version
C24_EventuallyFresh == (Triggered /\ Final) ~> Fresh

\* the update ended fresh after an earlier task was cancelled midway
C24_Witness ==
    /\ Triggered
    /\ Final
    /\ Fresh
    /\ Len(provider.rows) > chunk_size
    /\ \E n \in DOMAIN t_tasks :
          /\ t_tasks[n].state = "cancelled"
          /\ t_tasks[n].i > 0
          /\ t_tasks[n].i < t_tasks[n].n

----------------------------------------------------------------------------
(* The FiltersTabWidget *)

InRange(index, filters) == 0 <= index /\ index < Len(filters)

\* C25: the table shows one row per filter of filter_objects, keyed by its
\* index; a set, add, remove or update that changes filter_objects notifies
\* the listener once, with the resulting list; a remove or update out of
\* range changes nothing, notifies nobody and returns None / False
C25_TableShowsFilters ==
    ft_has_table =>
        /\ ft_table = FilterRows(filter_objects)
        /\ (ft_last.op # "load_data" /\ filter_objects # ft_last.before) =>
              ft_last.notified = <<filter_objects>>
        /\ ( /\ ft_last.op \in {"remove_filter_at", "update_filter_at"}
             /\ ~InRange(ft_last.index, ft_last.before) ) =>
              /\ filter_objects = ft_last.before
              /\ ft_last.notified = <<>>
              /\ ft_last.returned \in {"None", "False"}

----------------------------------------------------------------------------
(* Save and load of the editor's filters *)

RoundTripPaths == {<<"a">>, <<"b">>, <<"a", "b">>}

\* the outcome of a path under FileList.apply_filters: dropped, or rewritten
FileOutcome(filters, path) ==
    LET r == RunFilters(filters, 1, path, <<>>)
    IN  [dropped |-> r.stop, path |-> IF r.stop THEN <<>> ELSE r.path]

\* C26: the list loaded from a saved list of ignore and edit filters holds
\* the same filters in the same order and gives every path the same outcome
C26_RoundTrip ==
    rt_pc = "returned" =>
        /\ rt_out = rt_in
        /\ \A path \in RoundTripPaths :
              FileOutcome(rt_out, path) = FileOutcome(rt_in, path)

\* C27: a reader of filters.json gets a complete document, the one before
\* a save or the one saved, never a partly written file
C27_AtomicSave ==
    sv_read \in {Document(c) : c \in Savers \cup {"old"}}

----------------------------------------------------------------------------
(* The FileList *)

\* C28: whenever _needs_refresh is False the cached rows are the current
\* filters applied to the loaded raw data, sorted by path
C28_FreshCache ==
    (ed_pc = "calls" /\ ~ed_needs_refresh) =>
        ed_filtered_data = FilteredData(apply_filters(ed_raw_data, ed_filters))

----------------------------------------------------------------------------
(* The replace table *)

RemoveIfPresent(l, x) == IF x \in Range(l) THEN RemoveFirst(l, x) ELSE l

ReplaceIfPresent(l, x, y) ==
    IF x \in Range(l)
    THEN [l EXCEPT ![CHOOSE j \in DOMAIN l :
                        l[j] = x /\ \A h \in 1..(j - 1) : l[h] # x] = y]
    ELSE l

\* the pair shown in the cells of a row
ShownPair(row) == <<row.find, row.replace_with>>

\* C30: every configured pair has a row whose key splits back into the
\* pair; deleting or editing a row removes or replaces the pair the row
\* shows and leaves the other pairs as they were
C30_RowKeyRoundTrip ==
    /\ rk_pc \in {"shown", "changed"} =>
          \A k \in DOMAIN rk_config :
             /\ k \in DOMAIN rk_table
             /\ FindFrom(rk_table[k].key, "|", 1) # 0
             /\ SplitBar(rk_table[k].key) = rk_config[k]
    /\ rk_last.op = "delete" =>
          rk_config = RemoveIfPresent(rk_last.before, ShownPair(rk_last.row))
    /\ (rk_last.op = "edit" /\ rk_last.result[1] # <<>>) =>
          rk_config = ReplaceIfPresent(rk_last.before, ShownPair(rk_last.row),
                                       rk_last.result)

====
